---------------------------- MODULE Spec2Model ----------------------------
(***************************************************************************)
(* Sticker placement and texture baking of the 3D garment customiser.      *)
(*                                                                         *)
(* The editor page (src/unnamed/part_004) keeps the sticker stack, the     *)
(* selection, the colour mode and the gesture state; the scene             *)
(* (src/unnamed/part_009) bakes the stack and the colour mode into one     *)
(* composite texture per mesh.                                             *)
(*                                                                         *)
(* Numbers: uvX, uvY and scale are fractions; they are kept as integers in *)
(* units of 1/Unit, where Unit is a common multiple of every frame size    *)
(* and of 100, so that every division the code makes on them is exact.     *)
(* aspectRatio is kept as a reduced fraction [n, d].  Array indices are    *)
(* the code's (0-based); stickers[i] of the code is At(stickers, i).       *)
(***************************************************************************)
EXTENDS Integers, Sequences, FiniteSets, TLC

VARIABLES
    stickers,        \* useState<Sticker[]>        part_004:69
    selectedIndex,   \* useState<number | null>    part_004:70
    nextId,          \* ids handed out by genId so far
    uploads,         \* uploads in flight: FileReader / Image of addStickerFromDataUrl
    modelColor,      \* useState<string>('original') part_004:65
    isDragging,      \* part_004:99
    dragStartRef,    \* part_004:100   (<<>> is null)
    isResizing,      \* part_004:102
    resizeStateRef,  \* part_004:103   (<<>> is null)
    isRotating,      \* part_004:105
    rotateStateRef,  \* part_004:106   (<<>> is null)
    frame,           \* frameRef.current.getBoundingClientRect(): width, height
    isCropping,      \* part_004:108
    cropStateRef,    \* part_004:109   (<<>> is null)
    cropFx,          \* the crop effect's attached listeners and what they closed over
    commits,         \* crop commits whose image is loading (commitCrop)
    gradings,        \* applyColorGrading calls awaited (part_004:212, 227)
    model,           \* part_009: the loaded scene, FALSE while loading
    originalMaps,    \* part_009:125 per mesh snapshot (<<>> before the load)
    material,        \* per mesh: the material of the mesh
    bakes,           \* bakes whose async draw sequence has not finished
    gestureFx,       \* the global listeners attached, and what they closed over
    ops,             \* user gestures left to explore (bounds the exploration)
    idCap,           \* stickers that may ever be added (bounds the exploration)
    isRecording,       \* useState(false)               part_004:85
    isPaused,          \* useState(false)               part_004:86
    recordingTime,     \* useState(0), in seconds       part_004:88
    mediaRecorderRef,  \* index in recorders of the current one, 0 is null
    recorders,         \* the MediaRecorders created: state, stop event queued
    recordingTimerRef, \* "null", or the interval it holds: "live" / "cleared"
    intervals,         \* setInterval timers not cleared
    memoryCache,       \* cacheManager.ts:30  Map: prefixed key -> data
    localStorage,      \* window.localStorage: the items, in key(i) order
    idbModels,         \* object store 'models': url -> item
    idbApi,            \* object store 'api': key -> item
    dbInitPromise,     \* cacheManager.ts:33-34: how initIndexedDB settled
    dateNow,           \* Date.now(), in units of 12 hours
    returned,          \* what the last getCached... call returned, and its call
    asked              \* per sticker id, the colour grading asked for so far

editorVars  == <<stickers, selectedIndex, nextId, uploads>>
gestureVars == <<isDragging, dragStartRef, isResizing, resizeStateRef,
                 isRotating, rotateStateRef, frame>>
cropVars    == <<isCropping, cropStateRef, cropFx, commits>>
sceneVars   == <<model, originalMaps, material, bakes>>
recVars     == <<isRecording, isPaused, recordingTime, mediaRecorderRef,
                 recorders, recordingTimerRef, intervals>>
cacheVars   == <<memoryCache, localStorage, idbModels, idbApi, dbInitPromise,
                 dateNow, returned>>
vars == <<stickers, selectedIndex, nextId, uploads, modelColor,
          isDragging, dragStartRef, isResizing, resizeStateRef,
          isRotating, rotateStateRef, frame, isCropping, cropStateRef, cropFx,
          commits, gradings, model, originalMaps, material, bakes, gestureFx, ops, idCap,
          isRecording, isPaused, recordingTime, mediaRecorderRef, recorders,
          recordingTimerRef, intervals, memoryCache, localStorage, idbModels,
          idbApi, dbInitPromise, dateNow, returned, asked>>

---------------------------------------------------------------------------
(* Bounds of the exploration *)

MaxIds == 2        \* stickers ever added in the other specifications
MaxUploads == 2    \* uploads in flight
MaxBakes == 2      \* bakes in flight
StackIds == 3      \* stickers ever added in SpecStack
StackOps == 4      \* user gestures explored by SpecStack
BakeOps == 3       \* user gestures explored by SpecBake
GeomOps == 4       \* user gestures explored by SpecGeom
RotateOps == 4     \* user gestures explored by SpecRotate
CropOps == 4       \* user gestures explored by SpecCrop
HandleOps == 5     \* user gestures explored by SpecHandle
GestureOps == 4    \* user gestures explored by SpecGesture
RebakeOps == 4     \* user gestures explored by SpecRebake
RebakeIds == 1     \* stickers ever added in SpecRebake
PageOps == 4       \* user gestures explored by SpecPage

---------------------------------------------------------------------------
(* Arithmetic *)

RECURSIVE GCD(_, _)
GCD(a, b) == IF b = 0 THEN a ELSE GCD(b, a % b)

LCM(a, b) == (a * b) \div GCD(a, b)

Abs(a) == IF a < 0 THEN 0 - a ELSE a

Max(a, b) == IF a >= b THEN a ELSE b

Min(a, b) == IF a <= b THEN a ELSE b

\* Math.round of the fraction n/d (d > 0): the nearest integer, halves up.
Round(n, d) == (2 * n + d) \div (2 * d)

\* Truncation toward zero of n/d (d > 0); the conversion of a canvas size.
Trunc(n, d) == IF n >= 0 THEN n \div d ELSE 0 - ((0 - n) \div d)

\* JavaScript's remainder a % b (b > 0): the sign of the result is a's.
JsRem(a, b) == IF a >= 0 THEN a % b ELSE 0 - ((0 - a) % b)

\* A fraction in lowest terms.
Ratio(n, d) == [n |-> n \div GCD(n, d), d |-> d \div GCD(n, d)]

---------------------------------------------------------------------------
(* The editor's frame and the units of uv and scale *)

\* w-[280px] sm:w-[320px] md:w-[360px], square.
FrameSizes == {280, 320, 360}
Frames == {[width |-> f, height |-> f] : f \in FrameSizes}

\* the frame of a viewport of the md breakpoint and wider
WideFrame == [width |-> 360, height |-> 360]

Unit == LCM(LCM(LCM(280, 320), 360), 100)

Half == Unit \div 2
DefaultScale == (15 * Unit) \div 100
MinScale == (5 * Unit) \div 100
MaxScale == (50 * Unit) \div 100
ScaleStep == (2 * Unit) \div 100

NoIndex == -1
NoId == -1

\* The thumbnail of a sticker is 48 px wide under the sm breakpoint (where
\* the frame is 280) and 64 px from it on.  Crop rectangles are percentages;
\* they are kept as integers in units of 1/PctUnit percent, so that a pointer
\* travel in whole pixels over either thumbnail is exact.
ThumbSizes == {48, 64}
PctUnit == LCM(48, 64)
ThumbRect(f) == IF f.width = 280 THEN [width |-> 48, height |-> 48]
                ELSE [width |-> 64, height |-> 64]
Pct(n) == n * PctUnit

FullCrop == [x |-> 0, y |-> 0, width |-> Pct(100), height |-> Pct(100)]

\* stickers[i] of the code
At(s, i) == s[i + 1]
InRange(s, i) == i >= 0 /\ i < Len(s)

\* prev.map((s, i) => i === idx ? f(s) : s), with f given as the new record
SetAt(s, idx, r) == [k \in 1..Len(s) |-> IF k = idx + 1 THEN r ELSE s[k]]

\* .map((s, i) => ({ ...s, zIndex: i }))
Renumber(s) == [k \in 1..Len(s) |-> [s[k] EXCEPT !.zIndex = k - 1]]

\* prev.filter(s => s.id !== id)
RECURSIVE FilterOutId(_, _)
FilterOutId(s, id) ==
    IF s = <<>> THEN <<>>
    ELSE IF Head(s).id = id THEN FilterOutId(Tail(s), id)
         ELSE <<Head(s)>> \o FilterOutId(Tail(s), id)

\* copy.splice(idx, 1): the array without position idx
RemoveAt(s, idx) ==
    [k \in 1..(Len(s) - 1) |-> IF k < idx + 1 THEN s[k] ELSE s[k + 1]]

---------------------------------------------------------------------------
(* Images *)

\* An image (what a src decodes to): the uploaded file it comes from, its
\* natural size, and the crop rectangles rasterized into it so far.
Files == {[name |-> "A", w |-> 400, h |-> 200, crops |-> <<>>, grade |-> <<>>]}

\* const aspect = img.width && img.height ? img.width / img.height : 1
AspectOf(img) == IF img.w # 0 /\ img.h # 0 THEN Ratio(img.w, img.h)
                 ELSE [n |-> 1, d |-> 1]

\* DEFAULT_COLOR_GRADING, of which the model keeps two parameters
DefaultGrading == [brightness |-> 0, saturation |-> 0]

NewStickerSquare(id, img, len) ==
    [id |-> id, src |-> img, originalSrc |-> img,
     uvX |-> Half, uvY |-> Half, scale |-> DefaultScale,
     width |-> 100, height |-> 100,
     rotation |-> 0, aspectRatio |-> [n |-> 1, d |-> 1],
     zIndex |-> len, crop |-> FullCrop, colorGrading |-> DefaultGrading]

\* the record addStickerFromDataUrl builds in img.onload
NewSticker(id, img, len) ==
    [id |-> id, src |-> img, originalSrc |-> img,
     uvX |-> Half, uvY |-> Half, scale |-> DefaultScale,
     width |-> 100,
     height |-> Round(100 * AspectOf(img).d, AspectOf(img).n),
     rotation |-> 0, aspectRatio |-> AspectOf(img),
     zIndex |-> len, crop |-> FullCrop, colorGrading |-> DefaultGrading]

---------------------------------------------------------------------------
(* The scene: meshes, materials, snapshots, bakes *)

\* model.traverse visits the meshes in this order
MeshOrder == IF "hood" \in DOMAIN material THEN <<"body", "hood">>
             ELSE <<"body">>
Meshes == {MeshOrder[k] : k \in 1..Len(MeshOrder)}

\* A colour map.  A file texture has a name.  A composite (the CanvasTexture
\* of a bake) is what was painted on its canvas: the background (a fill
\* colour or the original image), then the stickers "of" the bake at the
\* indices "layers", in that order; "skipped" are the indices whose image
\* failed to decode.
NoTex == [kind |-> "none", name |-> "", fill |-> "", image |-> "",
          of |-> <<>>, layers |-> <<>>, skipped |-> {}]
FileTex(n) == [kind |-> "file", name |-> n, fill |-> "", image |-> "",
               of |-> <<>>, layers |-> <<>>, skipped |-> {}]

\* the material of each mesh as the glTF file gives it
GltfMaterial(m) ==
    [map |-> FileTex("body_basecolor"), normalMap |-> "body_normal",
     roughnessMap |-> "body_roughness", metalnessMap |-> "none",
     aoMap |-> "body_ao", emissiveMap |-> "none", color |-> "#808080"]

\* The models the page may be given: one whose meshes have a colour map and
\* one whose meshes have none (mat.map is undefined).
Textured == [m \in {"body"} |-> GltfMaterial(m)]
Untextured == [m \in {"body"} |-> [GltfMaterial(m) EXCEPT !.map = NoTex]]

\* file textures whose image is larger than a canvas the browser can give a
\* 2D context for: canvas.getContext('2d') is null for a canvas of their size
Oversized == {"hood_basecolor"}

\* a model of two meshes, the second with such a colour map
Hooded == [m \in {"body", "hood"} |->
             IF m = "body" THEN GltfMaterial(m)
             ELSE [GltfMaterial(m) EXCEPT !.map = FileTex("hood_basecolor")]]
Models == {Textured, Untextured, Hooded}

\* originalMaps.current.set(child, {...}) at model load
Snapshot(mat) ==
    [map |-> mat.map, normalMap |-> mat.normalMap,
     roughnessMap |-> mat.roughnessMap, metalnessMap |-> mat.metalnessMap,
     aoMap |-> mat.aoMap, emissiveMap |-> mat.emissiveMap,
     color |-> mat.color]

\* stickerPropsForScene: what the scene receives of each sticker
ForScene(s) == [k \in 1..Len(s) |->
    [src |-> s[k].src, uvX |-> s[k].uvX, uvY |-> s[k].uvY,
     scale |-> s[k].scale, rotation |-> s[k].rotation,
     aspectRatio |-> s[k].aspectRatio]]

IsCustom(color) == color # "reset" /\ color # "original"

\* the background of a bake's canvas
BackgroundMapFirst(stored, color) ==
    IF stored.map.kind # "none"
    THEN [fill |-> "", image |-> stored.map.name]
    ELSE IF IsCustom(color) THEN [fill |-> color, image |-> ""]
         ELSE [fill |-> stored.color, image |-> ""]
Background(stored, color) ==
    IF IsCustom(color) THEN [fill |-> color, image |-> ""]
    ELSE IF stored.map.kind # "none"
         THEN [fill |-> "", image |-> stored.map.name]
         ELSE [fill |-> stored.color, image |-> ""]

\* new THREE.CanvasTexture(canvas) of a bake b
CompositeOfCurrentStack(b) ==
    [kind |-> "composite", name |-> "", fill |-> b.bg.fill,
     image |-> b.bg.image, of |-> ForScene(stickers), layers |-> b.layers,
     skipped |-> b.skipped]
Composite(b) ==
    [kind |-> "composite", name |-> "", fill |-> b.bg.fill,
     image |-> b.bg.image, of |-> b.stickers, layers |-> b.layers,
     skipped |-> b.skipped]

\* the assignments that end a bake
BakedMapsShifted(stored, b) ==
    [map |-> Composite(b),
     normalMap |-> stored.roughnessMap, roughnessMap |-> stored.metalnessMap,
     metalnessMap |-> stored.aoMap, aoMap |-> stored.emissiveMap,
     emissiveMap |-> stored.normalMap, color |-> "#ffffff"]
Baked(stored, b) ==
    [map |-> Composite(b),
     normalMap |-> stored.normalMap, roughnessMap |-> stored.roughnessMap,
     metalnessMap |-> stored.metalnessMap, aoMap |-> stored.aoMap,
     emissiveMap |-> stored.emissiveMap, color |-> "#ffffff"]

\* the reset effect's assignments
RestoredMapOnly(mat, stored) == [mat EXCEPT !.map = stored.map]
Restored(mat, stored) ==
    [map |-> stored.map, normalMap |-> stored.normalMap,
     roughnessMap |-> stored.roughnessMap,
     metalnessMap |-> stored.metalnessMap, aoMap |-> stored.aoMap,
     emissiveMap |-> stored.emissiveMap, color |-> stored.color]

\* the bake one mesh starts for a stack and a colour mode
NewBake(m, stored, stk, color) ==
    [mesh |-> m, bg |-> Background(stored, color),
     stickers |-> ForScene(stk), fin |-> {}, layers |-> <<>>,
     skipped |-> {}]

\* The images of a bake whose decode has been started, given how many have
\* finished: the loop awaits each drawSticker before it calls the next.
DecodesStartedAllAtOnce(n, fin) == 0..(n - 1)
DecodesStarted(n, fin) == {i \in 0..(n - 1) : i <= Cardinality(fin)}

Pending(b) == DecodesStarted(Len(b.stickers), b.fin) \ b.fin

\* The bake effect: one bake per mesh that has a snapshot.  A bake of an
\* empty stack meets no await and ends within the effect; any other is left
\* waiting for its first image.
HasContextAlways(stored) == TRUE
HasContext(stored) ==
    ~(stored.map.kind = "file" /\ stored.map.name \in Oversized)

\* the meshes whose bake gets past `if (!ctx) return`, in traversal order
Painted(stored) == SelectSeq(MeshOrder, LAMBDA m : HasContext(stored[m]))

BakeEffectBakes(stored, stk, color) ==
    IF stk = <<>> THEN <<>>
    ELSE [k \in 1..Len(Painted(stored)) |->
            NewBake(Painted(stored)[k], stored[Painted(stored)[k]], stk,
                    color)]

BakeEffectMaterial(stored, stk, color, mat) ==
    IF stk # <<>> THEN mat
    ELSE [m \in Meshes |->
            IF HasContext(stored[m])
            THEN Baked(stored[m], NewBake(m, stored[m], stk, color))
            ELSE mat[m]]

\* The reset effect, which runs after the bake effect.
ResetEffectMaterial(stored, color, mat) ==
    IF color = "reset" THEN [m \in Meshes |-> Restored(mat[m], stored[m])]
    ELSE mat

\* The effects of one render of the page on the scene.  The bake effect runs
\* on every render (its stickers prop is a new array each time); the reset
\* effect runs when the colour mode changed.
SceneRenderResnapshots(stk, color) ==
    IF ~model THEN UNCHANGED sceneVars
    ELSE
      /\ UNCHANGED model
      /\ originalMaps' = [m \in Meshes |-> Snapshot(material[m])]
      /\ bakes' = bakes \o BakeEffectBakes(originalMaps, stk, color)
      /\ material' =
           LET baked == BakeEffectMaterial(originalMaps, stk, color, material)
           IN IF color # modelColor
              THEN ResetEffectMaterial(originalMaps, color, baked)
              ELSE baked
SceneRenderCoalesced(stk, color) ==
    IF ~model THEN UNCHANGED sceneVars
    ELSE
      /\ UNCHANGED <<model, originalMaps>>
      /\ bakes' = IF stk = <<>> THEN bakes
                  ELSE BakeEffectBakes(originalMaps, stk, color)
      /\ material' =
           LET baked == BakeEffectMaterial(originalMaps, stk, color, material)
           IN IF color # modelColor
              THEN ResetEffectMaterial(originalMaps, color, baked)
              ELSE baked
SceneRender(stk, color) ==
    IF ~model THEN UNCHANGED sceneVars
    ELSE
      /\ UNCHANGED <<model, originalMaps>>
      /\ bakes' = bakes \o BakeEffectBakes(originalMaps, stk, color)
      /\ material' =
           LET baked == BakeEffectMaterial(originalMaps, stk, color, material)
           IN IF color # modelColor
              THEN ResetEffectMaterial(originalMaps, color, baked)
              ELSE baked

---------------------------------------------------------------------------
(* Init: the page after its first render, the model still loading *)

\* nothing is being recorded
InitRecording ==
    /\ isRecording = FALSE
    /\ isPaused = FALSE
    /\ recordingTime = 0
    /\ mediaRecorderRef = 0
    /\ recorders = <<>>
    /\ recordingTimerRef = "null"
    /\ intervals = 0

\* new CacheManager(): an empty memory cache; what the browser stores is
\* empty at the start of the exploration; no call has returned
InitCacheManager ==
    /\ memoryCache = <<>>
    /\ localStorage = <<>>
    /\ idbModels = <<>>
    /\ idbApi = <<>>
    /\ dateNow = 0
    /\ returned = <<>>

\* everything but the uploads in flight and the caches
InitExceptUploadsAndCache ==
    /\ InitRecording
    /\ stickers = <<>>
    /\ selectedIndex = NoIndex
    /\ nextId = 0
    /\ modelColor = "original"
    /\ isDragging = FALSE
    /\ dragStartRef = <<>>
    /\ isResizing = FALSE
    /\ resizeStateRef = <<>>
    /\ isRotating = FALSE
    /\ rotateStateRef = <<>>
    /\ frame \in Frames
    /\ isCropping = FALSE
    /\ cropStateRef = <<>>
    /\ cropFx = [thumb |-> NoId, seen |-> NoId, on |-> <<>>]
    /\ commits = <<>>
    /\ gradings = <<>>
    /\ asked = <<>>
    /\ model = FALSE
    /\ originalMaps = <<>>
    /\ material \in Models
    /\ bakes = <<>>
    /\ gestureFx = <<>>

\* everything but the uploads in flight; IndexedDB opened
InitExceptUploads ==
    /\ InitExceptUploadsAndCache
    /\ InitCacheManager
    /\ dbInitPromise = "opened"

Init == InitExceptUploads /\ uploads = <<>>

---------------------------------------------------------------------------
(* Rendering *)

\* One user gesture of the budget.
Tick == ops > 0 /\ ops' = ops - 1 /\ idCap' = idCap

\* The crop effect (deps: isCropping, selectedIndex, thumbnailRef.current as
\* read while rendering).  When a dep changed, the listeners of the previous
\* run are removed and, with a crop gesture active and a thumbnail attached,
\* new ones are attached; they close over this render's selectedIndex and
\* (through commitCrop) its stickers.  Otherwise the attached listeners, and
\* what they closed over, stay.
CropEffect(stk, sel, cropping, cref) ==
    LET seenNow == cropFx.thumb
        thumbNext == IF InRange(stk, sel) THEN At(stk, sel).id ELSE NoId
        rerun == \/ cropping # isCropping
                 \/ sel # selectedIndex
                 \/ seenNow # cropFx.seen
        on == IF cropping /\ cref # <<>> /\ sel # NoIndex /\ thumbNext # NoId
              THEN <<[idx |-> sel, stickers |-> stk]>>
              ELSE <<>>
    IN cropFx' = [thumb |-> thumbNext, seen |-> seenNow,
                  on |-> IF rerun THEN on ELSE cropFx.on]

\* The effect of the global listeners (deps: isDragging, isResizing,
\* isRotating, selectedIndex), as the step's render leaves it: the listeners
\* of the previous run are removed when a dep changed, and new ones are
\* attached if a gesture flag is set; they close over the flags and the
\* selection of that render.  With no dep changed the listeners stay.
GestureEffectAlways ==
    gestureFx' = <<[isDragging |-> isDragging', isResizing |-> isResizing',
                    isRotating |-> isRotating',
                    selectedIndex |-> selectedIndex']>>
GestureEffect ==
    LET rerun == \/ isDragging' # isDragging
                 \/ isResizing' # isResizing
                 \/ isRotating' # isRotating
                 \/ selectedIndex' # selectedIndex
    IN gestureFx' =
         IF ~rerun THEN gestureFx
         ELSE IF isDragging' \/ isResizing' \/ isRotating'
              THEN <<[isDragging |-> isDragging', isResizing |-> isResizing',
                      isRotating |-> isRotating',
                      selectedIndex |-> selectedIndex']>>
              ELSE <<>>

\* One render of the page with the new state, and its effects.
PageRender(stk, sel, color, cropping, cref) ==
    /\ SceneRender(stk, color)
    /\ CropEffect(stk, sel, cropping, cref)

\* A render only starts bakes while there is room for them in the model.
BakeRoom(stk) ==
    ~model \/ stk = <<>> \/ Len(bakes) + Len(MeshOrder) <= MaxBakes

---------------------------------------------------------------------------
(* Uploads: handleImageUpload, addStickerFromDataUrl *)

\* The file input's change event with one or two files.  Every FileReader
\* callback of the event calls the addStickerFromDataUrl of the render the
\* event was handled in, so each upload carries that render's
\* stickers.length.
UploadFiles ==
    /\ Tick
    /\ \E fs \in {<<f>> : f \in Files} \cup {<<f, g>> : f \in Files, g \in Files} :
         /\ nextId + Len(uploads) + Len(fs) <= idCap
         /\ Len(uploads) + Len(fs) <= MaxUploads
         /\ uploads' = uploads \o
              [k \in 1..Len(fs) |->
                 [img |-> fs[k], len |-> Len(stickers), stage |-> "read"]]
    /\ UNCHANGED <<stickers, selectedIndex, nextId, modelColor>>
    /\ UNCHANGED <<gestureVars, cropVars, gradings, asked, recVars, cacheVars, sceneVars>>
    /\ GestureEffect

\* reader.onload: addStickerFromDataUrl sets img.src
ReadDone ==
    /\ \E k \in 1..Len(uploads) :
         /\ uploads[k].stage = "read"
         /\ uploads' = [uploads EXCEPT ![k].stage = "decode"]
    /\ UNCHANGED <<stickers, selectedIndex, nextId, modelColor, ops, idCap>>
    /\ UNCHANGED <<gestureVars, cropVars, gradings, asked, recVars, cacheVars, sceneVars>>
    /\ GestureEffect

\* img.onload of addStickerFromDataUrl
ImgLoad ==
    /\ \E k \in 1..Len(uploads) :
         /\ uploads[k].stage = "decode"
         /\ LET next == Append(stickers,
                               NewSticker(nextId, uploads[k].img, uploads[k].len))
            IN /\ BakeRoom(next)
               /\ stickers' = next
               /\ selectedIndex' = Len(next) - 1
               /\ nextId' = nextId + 1
               /\ uploads' = RemoveAt(uploads, k - 1)
               /\ PageRender(next, Len(next) - 1, modelColor, isCropping,
                             cropStateRef)
    /\ UNCHANGED <<modelColor, ops, idCap, gestureVars, isCropping, cropStateRef, commits, gradings, asked, recVars, cacheVars>>
    /\ GestureEffect

\* img.onerror of addStickerFromDataUrl
ImgError ==
    /\ \E k \in 1..Len(uploads) :
         /\ uploads[k].stage = "decode"
         /\ uploads' = RemoveAt(uploads, k - 1)
    /\ UNCHANGED <<stickers, selectedIndex, nextId, modelColor, ops, idCap>>
    /\ UNCHANGED <<gestureVars, cropVars, gradings, asked, recVars, cacheVars, sceneVars>>
    /\ GestureEffect

---------------------------------------------------------------------------
(* The stack: select, remove, reorder *)

\* thumbnail onClick: setSelectedIndex(idx)
SelectThumb ==
    /\ Tick
    /\ \E idx \in 0..(Len(stickers) - 1) :
         /\ idx # selectedIndex
         /\ BakeRoom(stickers)
         /\ selectedIndex' = idx
         /\ PageRender(stickers, idx, modelColor, isCropping, cropStateRef)
    /\ UNCHANGED <<stickers, nextId, uploads, modelColor>>
    /\ UNCHANGED <<gestureVars, isCropping, cropStateRef, commits, gradings, asked, recVars, cacheVars>>
    /\ GestureEffect

\* onFrameClick / onDoubleClick: setSelectedIndex(null)
Deselect ==
    /\ Tick
    /\ stickers # <<>>
    /\ selectedIndex # NoIndex
    /\ BakeRoom(stickers)
    /\ selectedIndex' = NoIndex
    /\ PageRender(stickers, NoIndex, modelColor, isCropping, cropStateRef)
    /\ UNCHANGED <<stickers, nextId, uploads, modelColor>>
    /\ UNCHANGED <<gestureVars, isCropping, cropStateRef, commits, gradings, asked, recVars, cacheVars>>
    /\ GestureEffect

\* deleteSelected
DeleteSelectedKeepsIndex ==
    /\ Tick
    /\ selectedIndex # NoIndex
    /\ InRange(stickers, selectedIndex)
    /\ LET idToRemove == At(stickers, selectedIndex).id
           next == Renumber(FilterOutId(stickers, idToRemove))
       IN /\ BakeRoom(next)
          /\ stickers' = next
          /\ selectedIndex' = selectedIndex
          /\ PageRender(next, selectedIndex, modelColor, isCropping,
                        cropStateRef)
    /\ UNCHANGED <<nextId, uploads, modelColor>>
    /\ UNCHANGED <<gestureVars, isCropping, cropStateRef, commits, gradings, asked, recVars, cacheVars>>
    /\ GestureEffect
DeleteSelected ==
    /\ Tick
    /\ selectedIndex # NoIndex
    /\ InRange(stickers, selectedIndex)
    /\ LET idToRemove == At(stickers, selectedIndex).id
           next == Renumber(FilterOutId(stickers, idToRemove))
       IN /\ BakeRoom(next)
          /\ stickers' = next
          /\ selectedIndex' = NoIndex
          /\ PageRender(next, NoIndex, modelColor, isCropping, cropStateRef)
    /\ UNCHANGED <<nextId, uploads, modelColor>>
    /\ UNCHANGED <<gestureVars, isCropping, cropStateRef, commits, gradings, asked, recVars, cacheVars>>
    /\ GestureEffect

\* the Remove button without the setSelectedIndex(null) of line 1029
RemoveThumbKeepsSelection ==
    /\ Tick
    /\ \E idx \in 0..(Len(stickers) - 1) :
         LET idToRemove == At(stickers, idx).id
             next == Renumber(FilterOutId(stickers, idToRemove))
         IN /\ BakeRoom(next)
            /\ stickers' = next
            /\ PageRender(next, selectedIndex, modelColor, isCropping,
                          cropStateRef)
    /\ UNCHANGED <<selectedIndex, nextId, uploads, modelColor>>
    /\ UNCHANGED <<gestureVars, isCropping, cropStateRef, commits, gradings, asked, recVars, cacheVars>>
    /\ GestureEffect

\* the thumbnail's Remove button
RemoveThumb ==
    /\ Tick
    /\ \E idx \in 0..(Len(stickers) - 1) :
         LET idToRemove == At(stickers, idx).id
             next == Renumber(FilterOutId(stickers, idToRemove))
         IN /\ BakeRoom(next)
            /\ stickers' = next
            /\ selectedIndex' = NoIndex
            /\ PageRender(next, NoIndex, modelColor, isCropping, cropStateRef)
    /\ UNCHANGED <<nextId, uploads, modelColor>>
    /\ UNCHANGED <<gestureVars, isCropping, cropStateRef, commits, gradings, asked, recVars, cacheVars>>
    /\ GestureEffect

\* bringForward
BringForward ==
    /\ Tick
    /\ selectedIndex # NoIndex
    /\ InRange(stickers, selectedIndex)
    /\ LET next == Renumber(Append(RemoveAt(stickers, selectedIndex),
                                   At(stickers, selectedIndex)))
           sel == IF Len(stickers) > 0 THEN Len(stickers) - 1 ELSE NoIndex
       IN /\ BakeRoom(next)
          /\ stickers' = next
          /\ selectedIndex' = sel
          /\ PageRender(next, sel, modelColor, isCropping, cropStateRef)
    /\ UNCHANGED <<nextId, uploads, modelColor>>
    /\ UNCHANGED <<gestureVars, isCropping, cropStateRef, commits, gradings, asked, recVars, cacheVars>>
    /\ GestureEffect

\* sendBackward
SendBackwardOneStep ==
    /\ Tick
    /\ selectedIndex # NoIndex
    /\ InRange(stickers, selectedIndex)
    /\ LET to == Max(0, selectedIndex - 1)
           next == Renumber(
                     [k \in 1..Len(stickers) |->
                        IF k = to + 1 THEN At(stickers, selectedIndex)
                        ELSE IF k = selectedIndex + 1 THEN At(stickers, to)
                        ELSE stickers[k]])
       IN /\ BakeRoom(next)
          /\ stickers' = next
          /\ selectedIndex' = to
          /\ PageRender(next, to, modelColor, isCropping, cropStateRef)
    /\ UNCHANGED <<nextId, uploads, modelColor>>
    /\ UNCHANGED <<gestureVars, isCropping, cropStateRef, commits, gradings, asked, recVars, cacheVars>>
    /\ GestureEffect
SendBackward ==
    /\ Tick
    /\ selectedIndex # NoIndex
    /\ InRange(stickers, selectedIndex)
    /\ LET next == Renumber(<<At(stickers, selectedIndex)>> \o
                            RemoveAt(stickers, selectedIndex))
       IN /\ BakeRoom(next)
          /\ stickers' = next
          /\ selectedIndex' = 0
          /\ PageRender(next, 0, modelColor, isCropping, cropStateRef)
    /\ UNCHANGED <<nextId, uploads, modelColor>>
    /\ UNCHANGED <<gestureVars, isCropping, cropStateRef, commits, gradings, asked, recVars, cacheVars>>
    /\ GestureEffect

---------------------------------------------------------------------------
(* The colour mode: the colour picker modal *)

\* colours the picker hands to onChange
Palette == {"#ff0000"}

PickColorDeselects ==
    /\ Tick
    /\ \E c \in Palette :
         /\ c # modelColor
         /\ BakeRoom(stickers)
         /\ modelColor' = c
         /\ selectedIndex' = NoIndex
         /\ PageRender(stickers, NoIndex, c, isCropping, cropStateRef)
    /\ UNCHANGED <<stickers, nextId, uploads>>
    /\ UNCHANGED <<gestureVars, isCropping, cropStateRef, commits, gradings, asked, recVars, cacheVars>>
    /\ GestureEffect

\* HexColorPicker onChange: setModelColor(val)
PickColor ==
    /\ Tick
    /\ \E c \in Palette :
         /\ c # modelColor
         /\ BakeRoom(stickers)
         /\ modelColor' = c
         /\ PageRender(stickers, selectedIndex, c, isCropping, cropStateRef)
    /\ UNCHANGED <<editorVars, gestureVars, isCropping, cropStateRef, commits, gradings, asked, recVars, cacheVars>>
    /\ GestureEffect

\* the Reset button: setModelColor('reset')
ResetColor ==
    /\ Tick
    /\ modelColor # "reset"
    /\ BakeRoom(stickers)
    /\ modelColor' = "reset"
    /\ PageRender(stickers, selectedIndex, "reset", isCropping, cropStateRef)
    /\ UNCHANGED <<editorVars, gestureVars, isCropping, cropStateRef, commits, gradings, asked, recVars, cacheVars>>
    /\ GestureEffect

---------------------------------------------------------------------------
(* The scene: model load and the steps of a bake *)

\* loader.load's onLoad: the snapshot of every mesh is stored and setModel
\* renders the scene; both effects run (their dep model changed).
ModelLoaded ==
    /\ ~model
    /\ stickers = <<>> \/ Len(bakes) + Len(MeshOrder) <= MaxBakes
    /\ LET stored == [m \in Meshes |-> Snapshot(material[m])]
       IN /\ originalMaps' = stored
          /\ model' = TRUE
          /\ bakes' = bakes \o BakeEffectBakes(stored, stickers, modelColor)
          /\ material' = ResetEffectMaterial(stored, modelColor,
                            BakeEffectMaterial(stored, stickers, modelColor,
                                               material))
    /\ UNCHANGED <<editorVars, modelColor, gestureVars, cropVars, gradings, asked, recVars, cacheVars, ops, idCap>>
    /\ GestureEffect

\* img.onload of drawSticker: the sticker is drawn on the bake's canvas
DrawnOk(b, i) == [b EXCEPT !.fin = @ \cup {i}, !.layers = Append(@, i)]

\* img.onerror of drawSticker: the sticker is skipped, the promise resolves
DrawFailedAborts(b, i) ==
    [b EXCEPT !.fin = 0..(Len(b.stickers) - 1), !.skipped = @ \cup {i}]
DrawFailed(b, i) == [b EXCEPT !.fin = @ \cup {i}, !.skipped = @ \cup {i}]

\* What follows the resolution of a drawSticker promise of bake k, now nb:
\* the loop goes on to the next sticker, or ends and assigns the composite.
BakeContinueIfLatest(k, nb) ==
    IF nb.fin = 0..(Len(nb.stickers) - 1)
    THEN /\ bakes' = RemoveAt(bakes, k - 1)
         /\ material' = IF k = Len(bakes)
                         THEN [material EXCEPT
                                 ![nb.mesh] = Baked(originalMaps[nb.mesh], nb)]
                         ELSE material
    ELSE /\ bakes' = [bakes EXCEPT ![k] = nb]
         /\ UNCHANGED material
BakeContinue(k, nb) ==
    IF nb.fin = 0..(Len(nb.stickers) - 1)
    THEN /\ bakes' = RemoveAt(bakes, k - 1)
         /\ material' = [material EXCEPT
                           ![nb.mesh] = Baked(originalMaps[nb.mesh], nb)]
    ELSE /\ bakes' = [bakes EXCEPT ![k] = nb]
         /\ UNCHANGED material

DecodeOk ==
    /\ \E k \in 1..Len(bakes) : \E i \in Pending(bakes[k]) :
         /\ bakes[k].stickers[i + 1].src.w > 0
         /\ bakes[k].stickers[i + 1].src.h > 0
         /\ BakeContinue(k, DrawnOk(bakes[k], i))
    /\ UNCHANGED <<model, originalMaps>>
    /\ UNCHANGED <<editorVars, modelColor, gestureVars, cropVars, gradings, asked, recVars, cacheVars, ops, idCap>>
    /\ GestureEffect

DecodeFail ==
    /\ \E k \in 1..Len(bakes) : \E i \in Pending(bakes[k]) :
         BakeContinue(k, DrawFailed(bakes[k], i))
    /\ UNCHANGED <<model, originalMaps>>
    /\ UNCHANGED <<editorVars, modelColor, gestureVars, cropVars, gradings, asked, recVars, cacheVars, ops, idCap>>
    /\ GestureEffect

---------------------------------------------------------------------------
(* Pointer gestures in the frame: drag and resize *)

\* clientX / clientY of the pointer events explored (whole pixels)
Pointers == {[x |-> 0, y |-> 0], [x |-> 25, y |-> -10],
             [x |-> 400, y |-> -400], [x |-> -90, y |-> -90]}

\* the gesture flags and refs after the global onUp
Released ==
    /\ isDragging' = FALSE
    /\ dragStartRef' = <<>>
    /\ isResizing' = FALSE
    /\ resizeStateRef' = <<>>
    /\ isRotating' = FALSE
    /\ rotateStateRef' = <<>>
    /\ isCropping' = FALSE
    /\ cropStateRef' = <<>>

\* the media query picks another frame size (the viewport was resized)
ViewportResize ==
    /\ Tick
    /\ \E f \in Frames : f # frame /\ frame' = f
    /\ UNCHANGED <<isDragging, dragStartRef, isResizing, resizeStateRef,
                   isRotating, rotateStateRef>>
    /\ UNCHANGED <<editorVars, modelColor, cropVars, gradings, asked, recVars, cacheVars, sceneVars>>
    /\ GestureEffect

\* dragStartRef.current = { x, y }.  The record also keeps the id of the
\* sticker the gesture was started on: the code does not store it, the
\* properties of a drag refer to it.
Grab(coords, id) == [x |-> coords.x, y |-> coords.y, grabbed |-> id]

\* startDragSticker
StartDragSticker ==
    /\ Tick
    /\ \E idx \in 0..(Len(stickers) - 1) : \E coords \in Pointers :
         /\ BakeRoom(stickers)
         /\ selectedIndex' = idx
         /\ isDragging' = TRUE
         /\ dragStartRef' = Grab(coords, At(stickers, idx).id)
         /\ PageRender(stickers, idx, modelColor, isCropping, cropStateRef)
    /\ UNCHANGED <<stickers, nextId, uploads, modelColor>>
    /\ UNCHANGED <<isResizing, resizeStateRef, isRotating, rotateStateRef,
                   frame, isCropping, cropStateRef, commits, gradings, asked, recVars, cacheVars>>
    /\ GestureEffect

\* startResize
StartResize ==
    /\ Tick
    /\ \E k \in 1..Len(stickers) : \E coords \in Pointers :
         /\ BakeRoom(stickers)
         /\ isResizing' = TRUE
         /\ resizeStateRef' = [id |-> stickers[k].id, x |-> coords.x,
                               y |-> coords.y, width |-> stickers[k].width,
                               height |-> stickers[k].height]
         /\ PageRender(stickers, selectedIndex, modelColor, isCropping,
                       cropStateRef)
    /\ UNCHANGED <<editorVars, modelColor>>
    /\ UNCHANGED <<isDragging, dragStartRef, isRotating, rotateStateRef,
                   frame, isCropping, cropStateRef, commits, gradings, asked, recVars, cacheVars>>
    /\ GestureEffect

\* the drag branch of onMove: the sticker s moved by the pointer's travel
\* since dragStart, its centre kept inside rect
DraggedUnclamped(s, dragStart, coords, rect) ==
    [s EXCEPT !.uvX = s.uvX + ((coords.x - dragStart.x) * Unit) \div rect.width,
              !.uvY = s.uvY - ((coords.y - dragStart.y) * Unit) \div rect.height]
DraggedYDown(s, dragStart, coords, rect) ==
    LET dx == coords.x - dragStart.x
        dy == coords.y - dragStart.y
        newCenterX == Max(0, Min(rect.width * Unit,
                                 s.uvX * rect.width + dx * Unit))
        newCenterY == Max(0, Min(rect.height * Unit,
                                 s.uvY * rect.height + dy * Unit))
    IN [s EXCEPT !.uvX = newCenterX \div rect.width,
                 !.uvY = newCenterY \div rect.height]
Dragged(s, dragStart, coords, rect) ==
    LET dx == coords.x - dragStart.x
        dy == coords.y - dragStart.y
        centerX == s.uvX * rect.width
        centerY == (Unit - s.uvY) * rect.height
        newCenterX == Max(0, Min(rect.width * Unit, centerX + dx * Unit))
        newCenterY == Max(0, Min(rect.height * Unit, centerY + dy * Unit))
    IN [s EXCEPT !.uvX = newCenterX \div rect.width,
                 !.uvY = Unit - newCenterY \div rect.height]

\* the resize branch of onMove: the sticker s resized by the pointer's
\* travel since the gesture rs started
Resized(s, rs, coords, rect) ==
    LET dx == coords.x - rs.x
        dy == coords.y - rs.y
        delta == Max(dx, dy)
        newW == Max(24, rs.width + delta)
        newH == Max(24, Round(rs.height * s.aspectRatio.n
                                + delta * s.aspectRatio.d, s.aspectRatio.n))
        biggest == Max(rect.width, rect.height)
        relative == Min(MaxScale, Max(MinScale, (newW * Unit) \div biggest))
    IN [s EXCEPT !.width = newW, !.height = newH, !.scale = relative]

\* the global listeners are attached; what onMove and onUp closed over
Listening == gestureFx # <<>>
Seen == gestureFx[1]

\* which branch of onMove a pointer move takes
DragBranch == /\ Listening
              /\ Seen.isDragging /\ dragStartRef # <<>>
              /\ Seen.selectedIndex # NoIndex
ResizeBranch == /\ Listening /\ ~DragBranch
                /\ Seen.isResizing /\ resizeStateRef # <<>>
RotateBranch == /\ Listening /\ ~DragBranch /\ ~ResizeBranch
                /\ Seen.isRotating /\ rotateStateRef # <<>>

\* onMove while dragging
DragMove ==
    /\ Tick
    /\ stickers # <<>>
    /\ DragBranch
    /\ \E coords \in Pointers :
         LET idx == Seen.selectedIndex
             next == IF InRange(stickers, idx)
                     THEN SetAt(stickers, idx,
                                Dragged(At(stickers, idx), dragStartRef,
                                        coords, frame))
                     ELSE stickers
         IN /\ BakeRoom(next)
            /\ stickers' = next
            /\ dragStartRef' = Grab(coords, dragStartRef.grabbed)
            /\ PageRender(next, selectedIndex, modelColor, isCropping,
                          cropStateRef)
    /\ UNCHANGED <<selectedIndex, nextId, uploads, modelColor>>
    /\ UNCHANGED <<isDragging, isResizing, resizeStateRef, isRotating,
                   rotateStateRef, frame, isCropping, cropStateRef, commits, gradings, asked, recVars, cacheVars>>
    /\ GestureEffect

\* onMove while resizing
ResizeMove ==
    /\ Tick
    /\ stickers # <<>>
    /\ ResizeBranch
    /\ \E coords \in Pointers :
         LET next == [k \in 1..Len(stickers) |->
                        IF stickers[k].id # resizeStateRef.id THEN stickers[k]
                        ELSE Resized(stickers[k], resizeStateRef, coords,
                                     frame)]
         IN /\ BakeRoom(next)
            /\ stickers' = next
            /\ PageRender(next, selectedIndex, modelColor, isCropping,
                          cropStateRef)
    /\ UNCHANGED <<selectedIndex, nextId, uploads, modelColor>>
    /\ UNCHANGED <<gestureVars, isCropping, cropStateRef, commits, gradings, asked, recVars, cacheVars>>
    /\ GestureEffect

\* the global onUp; it is attached while a drag, resize or rotate gesture
\* is active.  A release ends a gesture that was counted when it started.
OnUp ==
    /\ Listening
    /\ BakeRoom(stickers)
    /\ Released
    /\ PageRender(stickers, selectedIndex, modelColor, FALSE, <<>>)
    /\ UNCHANGED <<editorVars, modelColor, frame, commits, gradings, asked, recVars, cacheVars, ops, idCap>>
    /\ GestureEffect

---------------------------------------------------------------------------
(* The control panel of the selected sticker: nudge, scale, reset *)

Directions == {"up", "down", "left", "right"}

\* moveSticker: 5 pixels of rect in UV space
Moved(s, direction, rect) ==
    LET moveAmount == (5 * Unit) \div rect.width
    IN [s EXCEPT
          !.uvX = IF direction = "left" THEN Max(0, s.uvX - moveAmount)
                  ELSE IF direction = "right" THEN Min(Unit, s.uvX + moveAmount)
                  ELSE s.uvX,
          !.uvY = IF direction = "up" THEN Min(Unit, s.uvY + moveAmount)
                  ELSE IF direction = "down" THEN Max(0, s.uvY - moveAmount)
                  ELSE s.uvY]

\* scaleSticker
Scaled(s, direction, rect) ==
    LET newScale == IF direction = "up" THEN Min(MaxScale, s.scale + ScaleStep)
                    ELSE IF direction = "down"
                         THEN Max(MinScale, s.scale - ScaleStep)
                    ELSE DefaultScale
        biggest == Max(rect.width, rect.height)
        newW == Round(newScale * biggest, Unit)
        newH == Round(newW * s.aspectRatio.d, s.aspectRatio.n)
    IN [s EXCEPT !.scale = newScale, !.width = newW, !.height = newH]

\* resetSticker
ResetOf(s, rect) ==
    LET biggest == Max(rect.width, rect.height)
        newW == Round(DefaultScale * biggest, Unit)
        newH == Round(newW * s.aspectRatio.d, s.aspectRatio.n)
    IN [s EXCEPT !.uvX = Half, !.uvY = Half, !.scale = DefaultScale,
                 !.width = newW, !.height = newH, !.rotation = 0]

\* prev.map((s, i) => i === selectedIndex ? r : s) and the render it causes
MapSelected(r) ==
    LET next == IF InRange(stickers, selectedIndex)
                THEN SetAt(stickers, selectedIndex, r)
                ELSE stickers
    IN /\ BakeRoom(next)
       /\ stickers' = next
       /\ PageRender(next, selectedIndex, modelColor, isCropping, cropStateRef)

\* the control panel is in the frame and shown for a selection
PanelShown == stickers # <<>> /\ selectedIndex # NoIndex

Selected == IF InRange(stickers, selectedIndex)
            THEN At(stickers, selectedIndex) ELSE <<>>

MoveSticker ==
    /\ Tick
    /\ PanelShown
    /\ \E direction \in Directions :
         MapSelected(Moved(Selected, direction, frame))
    /\ UNCHANGED <<selectedIndex, nextId, uploads, modelColor>>
    /\ UNCHANGED <<gestureVars, isCropping, cropStateRef, commits, gradings, asked, recVars, cacheVars>>
    /\ GestureEffect

ScaleSticker ==
    /\ Tick
    /\ PanelShown
    /\ \E direction \in {"up", "down", "reset"} :
         MapSelected(Scaled(Selected, direction, frame))
    /\ UNCHANGED <<selectedIndex, nextId, uploads, modelColor>>
    /\ UNCHANGED <<gestureVars, isCropping, cropStateRef, commits, gradings, asked, recVars, cacheVars>>
    /\ GestureEffect

ResetSticker ==
    /\ Tick
    /\ PanelShown
    /\ MapSelected(ResetOf(Selected, frame))
    /\ UNCHANGED <<selectedIndex, nextId, uploads, modelColor>>
    /\ UNCHANGED <<gestureVars, isCropping, cropStateRef, commits, gradings, asked, recVars, cacheVars>>
    /\ GestureEffect

---------------------------------------------------------------------------
(* Rotation: the rotate handle and the control panel's rotate / flip *)

\* Math.atan2(...) * (180 / Math.PI) of the pointer about the sticker's
\* centre, in whole degrees; any angle of (-180, 180] can be the pointer's
PointerAngles == {-170, -45, 0, 100, 180}

\* startRotateHandle
StartRotateHandle ==
    /\ Tick
    /\ \E idx \in 0..(Len(stickers) - 1) : \E pointerAngleDeg \in PointerAngles :
         /\ BakeRoom(stickers)
         /\ rotateStateRef' = [index |-> idx,
                               startAngle |-> At(stickers, idx).rotation,
                               pointerAngle |-> pointerAngleDeg]
         /\ isRotating' = TRUE
         /\ selectedIndex' = idx
         /\ PageRender(stickers, idx, modelColor, isCropping, cropStateRef)
    /\ UNCHANGED <<stickers, nextId, uploads, modelColor>>
    /\ UNCHANGED <<isDragging, dragStartRef, isResizing, resizeStateRef,
                   frame, isCropping, cropStateRef, commits, gradings, asked, recVars, cacheVars>>
    /\ GestureEffect

\* the rotate branch of onMove
RotatedToPointerAngle(s, st, angleDeg) ==
    [s EXCEPT !.rotation = JsRem(angleDeg, 360)]
RotatedTo(s, st, angleDeg) ==
    LET delta == angleDeg - st.pointerAngle
    IN [s EXCEPT !.rotation = JsRem(st.startAngle + delta, 360)]

\* onMove while rotating
RotateMove ==
    /\ Tick
    /\ stickers # <<>>
    /\ RotateBranch
    /\ InRange(stickers, rotateStateRef.index)
    /\ \E angleDeg \in PointerAngles :
         LET next == SetAt(stickers, rotateStateRef.index,
                           RotatedTo(At(stickers, rotateStateRef.index),
                                     rotateStateRef, angleDeg))
         IN /\ BakeRoom(next)
            /\ stickers' = next
            /\ PageRender(next, selectedIndex, modelColor, isCropping,
                          cropStateRef)
    /\ UNCHANGED <<selectedIndex, nextId, uploads, modelColor>>
    /\ UNCHANGED <<gestureVars, isCropping, cropStateRef, commits, gradings, asked, recVars, cacheVars>>
    /\ GestureEffect

\* rotateSticker / flipSticker: (s.rotation + angle) % 360
RotatedBy(s, angle) == [s EXCEPT !.rotation = JsRem(s.rotation + angle, 360)]

\* rotateSticker
RotateSticker ==
    /\ Tick
    /\ PanelShown
    /\ \E direction \in {"left", "right"} :
         MapSelected(RotatedBy(Selected,
                               IF direction = "left" THEN -15 ELSE 15))
    /\ UNCHANGED <<selectedIndex, nextId, uploads, modelColor>>
    /\ UNCHANGED <<gestureVars, isCropping, cropStateRef, commits, gradings, asked, recVars, cacheVars>>
    /\ GestureEffect

\* flipSticker: both directions add 180
FlipSticker ==
    /\ Tick
    /\ PanelShown
    /\ \E direction \in {"horizontal", "vertical"} :
         MapSelected(RotatedBy(Selected, 180))
    /\ UNCHANGED <<selectedIndex, nextId, uploads, modelColor>>
    /\ UNCHANGED <<gestureVars, isCropping, cropStateRef, commits, gradings, asked, recVars, cacheVars>>
    /\ GestureEffect

---------------------------------------------------------------------------
(* Crop: the thumbnail's crop button, the crop effect's listeners, commit *)

\* the handle parameter of handleCropMouseDown
Handles == {"nw", "ne", "sw", "se", "n", "s", "e", "w", "null"}

\* cHandle.includes(c)
Includes(cHandle, c) ==
    IF c = "n" THEN cHandle \in {"n", "ne", "nw"}
    ELSE IF c = "s" THEN cHandle \in {"s", "se", "sw"}
    ELSE IF c = "w" THEN cHandle \in {"w", "nw", "sw"}
    ELSE cHandle \in {"e", "ne", "se"}

\* handleCropMouseDown
HandleCropMouseDown ==
    /\ Tick
    /\ selectedIndex # NoIndex
    /\ InRange(stickers, selectedIndex)
    /\ BakeRoom(stickers)
    /\ \E handle \in Handles : \E coords \in Pointers :
         LET cref == [handle |-> handle, startX |-> coords.x,
                      startY |-> coords.y,
                      crop |-> At(stickers, selectedIndex).crop]
         IN /\ isCropping' = TRUE
            /\ cropStateRef' = cref
            /\ PageRender(stickers, selectedIndex, modelColor, TRUE, cref)
    /\ UNCHANGED <<editorVars, modelColor, gestureVars, commits, gradings, asked, recVars, cacheVars>>
    /\ GestureEffect

\* newCrop of the crop effect's onMove, for the gesture st, the pointer at
\* coords and the thumbnail's rect
CropMovedNoMinimum(st, coords, rect) ==
    LET deltaX == ((coords.x - st.startX) * 100 * PctUnit) \div rect.width
        deltaY == ((coords.y - st.startY) * 100 * PctUnit) \div rect.height
    IN [x |-> st.crop.x, y |-> st.crop.y,
        width |-> Min(Pct(100) - st.crop.x, st.crop.width + deltaX),
        height |-> Min(Pct(100) - st.crop.y, st.crop.height + deltaY)]
\* newCrop with the n and w branches moving y and x only
CropMovedKeepsSize(st, coords, rect) ==
    LET deltaX == ((coords.x - st.startX) * 100 * PctUnit) \div rect.width
        deltaY == ((coords.y - st.startY) * 100 * PctUnit) \div rect.height
        cHandle == IF st.handle = "null" THEN "se" ELSE st.handle
        c == st.crop
        y1 == IF Includes(cHandle, "n")
              THEN Max(0, Min(c.y + deltaY, c.y + c.height - Pct(5)))
              ELSE c.y
        h1 == c.height
        h2 == IF Includes(cHandle, "s")
              THEN Max(Pct(5), Min(Pct(100) - c.y, c.height + deltaY))
              ELSE h1
        x1 == IF Includes(cHandle, "w")
              THEN Max(0, Min(c.x + deltaX, c.x + c.width - Pct(5)))
              ELSE c.x
        w1 == c.width
        w2 == IF Includes(cHandle, "e")
              THEN Max(Pct(5), Min(Pct(100) - c.x, c.width + deltaX))
              ELSE w1
    IN [x |-> x1, y |-> y1, width |-> w2, height |-> h2]
CropMoved(st, coords, rect) ==
    LET deltaX == ((coords.x - st.startX) * 100 * PctUnit) \div rect.width
        deltaY == ((coords.y - st.startY) * 100 * PctUnit) \div rect.height
        cHandle == IF st.handle = "null" THEN "se" ELSE st.handle
        c == st.crop
        y1 == IF Includes(cHandle, "n")
              THEN Max(0, Min(c.y + deltaY, c.y + c.height - Pct(5)))
              ELSE c.y
        h1 == IF Includes(cHandle, "n") THEN c.height - (y1 - c.y)
              ELSE c.height
        h2 == IF Includes(cHandle, "s")
              THEN Max(Pct(5), Min(Pct(100) - c.y, c.height + deltaY))
              ELSE h1
        x1 == IF Includes(cHandle, "w")
              THEN Max(0, Min(c.x + deltaX, c.x + c.width - Pct(5)))
              ELSE c.x
        w1 == IF Includes(cHandle, "w") THEN c.width - (x1 - c.x)
              ELSE c.width
        w2 == IF Includes(cHandle, "e")
              THEN Max(Pct(5), Min(Pct(100) - c.x, c.width + deltaX))
              ELSE w1
    IN [x |-> x1, y |-> y1, width |-> w2, height |-> h2]

\* the listeners the crop effect attached, and what they closed over
CropListening == cropFx.on # <<>>
Closed == cropFx.on[1]

\* the crop effect's onMove
CropMove ==
    /\ Tick
    /\ CropListening
    /\ cropStateRef # <<>>
    /\ \E coords \in Pointers :
         LET newCrop == CropMoved(cropStateRef, coords, ThumbRect(frame))
             next == [k \in 1..Len(stickers) |->
                        IF k - 1 = Closed.idx
                        THEN [stickers[k] EXCEPT !.crop = newCrop]
                        ELSE stickers[k]]
         IN /\ BakeRoom(next)
            /\ stickers' = next
            /\ PageRender(next, selectedIndex, modelColor, isCropping,
                          cropStateRef)
    /\ UNCHANGED <<selectedIndex, nextId, uploads, modelColor>>
    /\ UNCHANGED <<gestureVars, isCropping, cropStateRef, commits, gradings, asked, recVars, cacheVars>>
    /\ GestureEffect

\* commitCrop(idx) of the render whose stickers are stk: the image loads it
\* starts (none or one).  The record also keeps the id of the sticker the
\* commit was started for: the code does not hold it, the properties of a
\* commit refer to it.
CommitStarted(stk, idx) ==
    IF ~InRange(stk, idx) THEN <<>>
    ELSE IF At(stk, idx).crop = FullCrop THEN <<>>
    ELSE <<[idx |-> idx, crop |-> At(stk, idx).crop, img |-> At(stk, idx).src,
            id |-> At(stk, idx).id]>>

\* the crop effect's onUp: it calls the commitCrop its render defined.  A
\* release ends a gesture that was counted when it started.
CropUp ==
    /\ CropListening
    /\ BakeRoom(stickers)
    /\ isCropping' = FALSE
    /\ cropStateRef' = <<>>
    /\ commits' = commits \o CommitStarted(Closed.stickers, Closed.idx)
    /\ PageRender(stickers, selectedIndex, modelColor, FALSE, <<>>)
    /\ UNCHANGED <<editorVars, modelColor, gestureVars, gradings, asked, recVars, cacheVars, ops, idCap>>
    /\ GestureEffect

\* an image that decodes: it has pixels
Decodable(img) == img.w > 0 /\ img.h > 0

\* canvas.toDataURL() of commitCrop: the part crop of img, on a canvas whose
\* width and height are cropW and cropH converted to whole pixels
Rasterized(img, crop) ==
    [name |-> img.name,
     w |-> Trunc(crop.width * img.w, Pct(100)),
     h |-> Trunc(crop.height * img.h, Pct(100)),
     crops |-> Append(img.crops, crop), grade |-> img.grade]

CroppedIntoOriginal(x, img, crop) ==
    LET aspect == Ratio(crop.width * img.w, crop.height * img.h)
    IN [x EXCEPT !.src = Rasterized(img, crop),
                 !.originalSrc = Rasterized(img, crop),
                 !.aspectRatio = aspect,
                 !.height = Round(x.width * aspect.d, aspect.n),
                 !.crop = FullCrop]

\* the sticker x after commitCrop's img.onload
Cropped(x, img, crop) ==
    LET aspect == Ratio(crop.width * img.w, crop.height * img.h)
    IN [x EXCEPT !.src = Rasterized(img, crop),
                 !.aspectRatio = aspect,
                 !.height = Round(x.width * aspect.d, aspect.n),
                 !.crop = FullCrop]

\* img.onload of commitCrop
CommitLoad ==
    /\ \E k \in 1..Len(commits) :
         LET c == commits[k]
             next == [j \in 1..Len(stickers) |->
                        IF j - 1 = c.idx
                        THEN Cropped(stickers[j], c.img, c.crop)
                        ELSE stickers[j]]
         IN /\ Decodable(c.img)
            /\ BakeRoom(next)
            /\ stickers' = next
            /\ commits' = RemoveAt(commits, k - 1)
            /\ PageRender(next, selectedIndex, modelColor, isCropping,
                          cropStateRef)
    /\ UNCHANGED <<selectedIndex, nextId, uploads, modelColor, ops, idCap>>
    /\ UNCHANGED <<gestureVars, isCropping, cropStateRef, gradings, asked, recVars, cacheVars>>
    /\ GestureEffect

CommitErrorClearsCrop ==
    /\ \E k \in 1..Len(commits) :
         /\ commits' = RemoveAt(commits, k - 1)
         /\ stickers' = [j \in 1..Len(stickers) |->
                           IF j - 1 = commits[k].idx
                           THEN [stickers[j] EXCEPT !.crop = FullCrop]
                           ELSE stickers[j]]
    /\ UNCHANGED <<selectedIndex, nextId, uploads>>
    /\ UNCHANGED <<modelColor, gestureVars, sceneVars, ops, idCap>>
    /\ UNCHANGED <<isCropping, cropStateRef, cropFx, gradings, asked, recVars, cacheVars>>
    /\ GestureEffect

\* img.onerror of commitCrop
CommitError ==
    /\ \E k \in 1..Len(commits) : commits' = RemoveAt(commits, k - 1)
    /\ UNCHANGED <<editorVars, modelColor, gestureVars, sceneVars, ops, idCap>>
    /\ UNCHANGED <<isCropping, cropStateRef, cropFx, gradings, asked, recVars, cacheVars>>
    /\ GestureEffect

---------------------------------------------------------------------------
(* Colour grading: the sliders, the presets and Reset All of the panel *)

\* applyColorGrading(src, params): the image src drawn on a canvas of its
\* size, every pixel adjusted by params, as a data URL
Graded(img, params) == [img EXCEPT !.grade = <<params>>]

\* the sliders' onChange: a parameter and its new value
GradingInputs == {<<"brightness", 30>>, <<"saturation", -20>>}

\* COLOR_GRADING_PRESETS; a parameter a preset leaves out is held as its
\* default, which is what applyColorGrading merges in and the panel shows
Presets == [blackAndWhite |-> [brightness |-> 0, saturation |-> -100]]

\* the call awaited by updateColorGrading and applyColorGradingPreset: the
\* handler's selectedIndex, the originalSrc of stickers[selectedIndex] and
\* the parameters.  The record also keeps the id of that sticker: the code
\* does not hold it, the properties of a grading refer to it.
Awaited(params) ==
    [idx |-> selectedIndex, img |-> Selected.originalSrc, grading |-> params,
     id |-> Selected.id]

\* The grading asked for so far for a sticker: every parameter the panel
\* changed, with its latest value (the default where none was changed).  It
\* is what the user has set, not something the code holds.
AskedOf(s) == IF s.id \in DOMAIN asked THEN asked[s.id] ELSE s.colorGrading
NowAsked(id, params) ==
    [x \in DOMAIN asked \cup {id} |-> IF x = id THEN params ELSE asked[x]]

\* updateColorGrading(paramName, value) up to its await
UpdateColorGrading ==
    /\ Tick
    /\ InRange(stickers, selectedIndex)
    /\ \E in \in GradingInputs :
         /\ gradings' = Append(gradings,
               Awaited([Selected.colorGrading EXCEPT ![in[1]] = in[2]]))
         /\ asked' = NowAsked(Selected.id,
                               [AskedOf(Selected) EXCEPT ![in[1]] = in[2]])
    /\ UNCHANGED <<editorVars, modelColor, gestureVars, cropVars, sceneVars>>
    /\ UNCHANGED <<recVars, cacheVars>>
    /\ GestureEffect

\* applyColorGradingPreset(presetName) up to its await
ApplyColorGradingPreset ==
    /\ Tick
    /\ InRange(stickers, selectedIndex)
    /\ \E presetName \in DOMAIN Presets :
         /\ gradings' = Append(gradings, Awaited(Presets[presetName]))
         /\ asked' = NowAsked(Selected.id, Presets[presetName])
    /\ UNCHANGED <<editorVars, modelColor, gestureVars, cropVars, sceneVars>>
    /\ UNCHANGED <<recVars, cacheVars>>
    /\ GestureEffect

\* after the await: setStickers(prev => prev.map(...)) with the graded image
GradeDone ==
    /\ \E k \in 1..Len(gradings) :
         LET g == gradings[k]
             next == [j \in 1..Len(stickers) |->
                        IF j - 1 = g.idx
                        THEN [stickers[j] EXCEPT
                                !.src = Graded(g.img, g.grading),
                                !.colorGrading = g.grading]
                        ELSE stickers[j]]
         IN /\ BakeRoom(next)
            /\ stickers' = next
            /\ gradings' = RemoveAt(gradings, k - 1)
            /\ PageRender(next, selectedIndex, modelColor, isCropping,
                          cropStateRef)
    /\ UNCHANGED <<selectedIndex, nextId, uploads, modelColor, ops, idCap>>
    /\ UNCHANGED <<gestureVars, isCropping, cropStateRef, commits>>
    /\ UNCHANGED <<asked, recVars, cacheVars>>
    /\ GestureEffect

\* the awaited call rejects (no canvas context, image load failed): the
\* handler's catch logs it
GradeFail ==
    /\ \E k \in 1..Len(gradings) : gradings' = RemoveAt(gradings, k - 1)
    /\ UNCHANGED <<editorVars, modelColor, gestureVars, cropVars, sceneVars>>
    /\ UNCHANGED <<ops, idCap>>
    /\ UNCHANGED <<asked, recVars, cacheVars>>
    /\ GestureEffect

\* resetColorGrading
ResetColorGrading ==
    /\ Tick
    /\ InRange(stickers, selectedIndex)
    /\ MapSelected([Selected EXCEPT !.src = Selected.originalSrc,
                                    !.colorGrading = DefaultGrading])
    /\ asked' = NowAsked(Selected.id, DefaultGrading)
    /\ UNCHANGED <<selectedIndex, nextId, uploads, modelColor>>
    /\ UNCHANGED <<gestureVars, isCropping, cropStateRef, commits, gradings, recVars, cacheVars>>
    /\ GestureEffect

---------------------------------------------------------------------------
(* The stack alone: uploads, selection, removal, reordering *)

InitStack == Init /\ frame = WideFrame /\ ops = StackOps /\ idCap = StackIds
    /\ material = Textured

NextStack ==
    \/ UploadFiles
    \/ ReadDone
    \/ ImgLoad
    \/ ImgError
    \/ SelectThumb
    \/ Deselect
    \/ DeleteSelected
    \/ RemoveThumb
    \/ BringForward
    \/ SendBackward

SpecStack == InitStack /\ [][NextStack]_vars

\* C1: every sticker's zIndex equals its index in the stickers array.
ZIndexIsArrayIndex ==
    \A i \in 0..(Len(stickers) - 1) : At(stickers, i).zIndex = i

---------------------------------------------------------------------------
(* The bake pipeline: stack changes, colour mode changes, bakes *)

InitBake == Init /\ frame = WideFrame /\ ops = BakeOps /\ idCap = MaxIds
    /\ material = Textured

NextBake ==
    \/ ModelLoaded
    \/ UploadFiles
    \/ ReadDone
    \/ ImgLoad
    \/ ImgError
    \/ RemoveThumb
    \/ BringForward
    \/ PickColor
    \/ ResetColor
    \/ DecodeOk
    \/ DecodeFail

SpecBake == InitBake /\ [][NextBake]_vars


\* The indices of s in ascending order, as a sequence.
RECURSIVE AscendingSeq(_)
AscendingSeq(s) ==
    IF s = {} THEN <<>>
    ELSE LET lo == CHOOSE x \in s : \A y \in s : x <= y
         IN <<lo>> \o AscendingSeq(s \ {lo})

IsAscending(q) == \A i \in 1..(Len(q) - 1) : q[i] < q[i + 1]

Composites == {material[m].map : m \in {x \in Meshes : material[x].map.kind = "composite"}}

\* C2: within one bake the stickers are decoded and drawn strictly in stack
\* order: at most one image of a bake is decoding, every sticker before it
\* has been drawn or has failed, none after it has been started, and the
\* draws made so far (and those of every finished composite) are in
\* ascending stack order.
PaintOrderSequential ==
    /\ \A k \in 1..Len(bakes) :
         /\ Cardinality(Pending(bakes[k])) <= 1
         /\ \A i \in Pending(bakes[k]) : bakes[k].fin = 0..(i - 1)
         /\ IsAscending(bakes[k].layers)
    /\ \A c \in Composites : IsAscending(c.layers)

\* a finished bake that drew two stickers
PaintedTwoStickers == \E c \in Composites : Len(c.layers) >= 2

\* C4: after a bake has completed, the material's normal, roughness,
\* metalness, AO and emissive maps are the snapshot's; only the colour map
\* (the composite) and the colour (white) are the bake's.
BakeKeepsOtherMaps ==
    model =>
      \A m \in Meshes :
        material[m].map.kind = "composite" =>
          /\ material[m].normalMap = originalMaps[m].normalMap
          /\ material[m].roughnessMap = originalMaps[m].roughnessMap
          /\ material[m].metalnessMap = originalMaps[m].metalnessMap
          /\ material[m].aoMap = originalMaps[m].aoMap
          /\ material[m].emissiveMap = originalMaps[m].emissiveMap
          /\ material[m].color = "#ffffff"

\* a bake of a custom colour and a drawn sticker has completed
CustomBakeCompleted ==
    \E c \in Composites : c.fill \in Palette /\ Len(c.layers) >= 1

OriginalBase(m, c) ==
    /\ c.kind = "composite"
    /\ IF originalMaps[m].map.kind # "none"
       THEN c.image = originalMaps[m].map.name /\ c.fill = ""
       ELSE c.fill = originalMaps[m].color /\ c.image = ""

\* C5: after a reset to original with stickers on the stack, once no bake is
\* in flight every mesh's colour map is a composite over the original base.
ResetShowsOriginalBase ==
    (model /\ modelColor = "reset" /\ stickers # <<>> /\ bakes = <<>>) =>
      \A m \in Meshes : OriginalBase(m, material[m].map)

\* The colour mode and the bakes it starts: uploads, removal, colour changes
\* and the bakes' image loads.  Every image load settles (onload or onerror
\* fires), so a bake in flight is not left waiting forever.
NextReset ==
    \/ ModelLoaded
    \/ UploadFiles
    \/ ReadDone
    \/ ImgLoad
    \/ RemoveThumb
    \/ PickColor
    \/ ResetColor
    \/ DecodeOk
    \/ DecodeFail

SpecResetFair ==
    InitBake /\ [][NextReset]_vars /\ WF_vars(DecodeOk \/ DecodeFail)

ResetStep == model /\ modelColor # "reset" /\ modelColor' = "reset"

StartedBakes == SubSeq(bakes', Len(bakes) + 1, Len(bakes'))

\* a bake over the original base is in flight for mesh m after a reset
ResetBakeInFlight(m) ==
    /\ model /\ modelColor = "reset"
    /\ \E k \in 1..Len(bakes) :
         /\ bakes[k].mesh = m
         /\ bakes[k].bg.image = originalMaps[m].map.name
         /\ bakes[k].bg.fill = ""

\* C6: on the reset transition every mesh's maps and colour are the
\* snapshot's once the transition's effects have run; with an empty stack no
\* bake is left to replace them, and with stickers on the stack one bake per
\* mesh is left in flight, over the original base and the current stack,
\* waiting for an image; whenever a bake ends, its composite becomes the
\* colour map of its mesh; and a bake over the original base that is in
\* flight after a reset leads to a composite over the original base, with
\* stickers, being the colour map.
ResetRestoresSnapshot ==
  /\ \A m \in {"body", "hood"} :
       (m \in Meshes /\ ResetBakeInFlight(m)) ~>
         (/\ m \in Meshes
          /\ OriginalBase(m, material[m].map)
          /\ material[m].map.of # <<>>)
  /\
    [][/\ ResetStep =>
            /\ \A m \in Meshes :
                 material'[m] = Snapshot(originalMaps[m])
            /\ stickers = <<>> => bakes' = bakes
            /\ stickers # <<>> =>
                 /\ Len(StartedBakes) = Len(MeshOrder)
                 /\ \A k \in 1..Len(MeshOrder) :
                      /\ StartedBakes[k].mesh = MeshOrder[k]
                      /\ StartedBakes[k].stickers = ForScene(stickers)
                      /\ StartedBakes[k].bg.image =
                            originalMaps[MeshOrder[k]].map.name
                      /\ StartedBakes[k].bg.fill = ""
                      /\ Pending(StartedBakes[k]) # {}
       /\ \A k \in 1..Len(bakes) :
            (Len(bakes') < Len(bakes) /\ bakes' = RemoveAt(bakes, k - 1)) =>
              /\ material'[bakes[k].mesh].map.kind = "composite"
              /\ material'[bakes[k].mesh].map.image = bakes[k].bg.image
              /\ material'[bakes[k].mesh].map.fill = bakes[k].bg.fill
              /\ material'[bakes[k].mesh].map.of = bakes[k].stickers
      ]_vars

\* the bake started by a reset has ended: the stack's composite over the
\* original base is the colour map
ResetBakeInstalled ==
    /\ model /\ modelColor = "reset" /\ stickers # <<>> /\ bakes = <<>>
    /\ \A m \in Meshes :
         /\ OriginalBase(m, material[m].map)
         /\ material[m].map.of = ForScene(stickers)

\* C7: a sticker whose image fails to decode is skipped and nothing else: a
\* finished composite holds exactly the stickers of its stack that did not
\* fail, in stack order, and a bake in flight has drawn exactly the
\* finished stickers that did not fail and is waiting for an image.
FailedDecodeOnlySkips ==
    /\ \A c \in Composites :
         /\ c.skipped \subseteq 0..(Len(c.of) - 1)
         /\ c.layers = AscendingSeq((0..(Len(c.of) - 1)) \ c.skipped)
    /\ \A k \in 1..Len(bakes) :
         /\ bakes[k].skipped \subseteq bakes[k].fin
         /\ bakes[k].layers = AscendingSeq(bakes[k].fin \ bakes[k].skipped)
         /\ Pending(bakes[k]) # {}

\* a finished bake skipped a sticker and drew a later one
DrewAfterFailure ==
    \E c \in Composites :
      \E i \in c.skipped : \E j \in 1..Len(c.layers) : c.layers[j] > i

---------------------------------------------------------------------------
(* Placement: drag, nudge, resize, scale and reset in every frame size *)

InitGeom == Init /\ ops = GeomOps /\ idCap = MaxIds
    /\ material = Textured

NextGeom ==
    \/ UploadFiles
    \/ ReadDone
    \/ ImgLoad
    \/ ViewportResize
    \/ StartDragSticker
    \/ StartResize
    \/ DragMove
    \/ ResizeMove
    \/ OnUp
    \/ MoveSticker
    \/ ScaleSticker
    \/ ResetSticker

SpecGeom == InitGeom /\ [][NextGeom]_vars

\* C3: every sticker's uvX and uvY lie in [0, 1] and its scale in
\* [0.05, 0.5], after any adds, drags, nudges, resizes, scale steps and
\* resets in any frame size.
UvAndScaleInRange ==
    \A k \in 1..Len(stickers) :
      /\ 0 <= stickers[k].uvX /\ stickers[k].uvX <= Unit
      /\ 0 <= stickers[k].uvY /\ stickers[k].uvY <= Unit
      /\ MinScale <= stickers[k].scale /\ stickers[k].scale <= MaxScale

\* a drag carried the pointer beyond the frame's corner: the sticker's
\* centre was stopped on the corner
DraggedToCorner ==
    /\ isDragging
    /\ InRange(stickers, selectedIndex)
    /\ At(stickers, selectedIndex).uvX = Unit
    /\ At(stickers, selectedIndex).uvY = Unit

---------------------------------------------------------------------------
(* Rotation: the handle, rotate left / right, flip, reset *)

InitRotate == Init /\ frame = WideFrame /\ ops = RotateOps /\ idCap = MaxIds
    /\ material = Textured

NextRotate ==
    \/ UploadFiles
    \/ ReadDone
    \/ ImgLoad
    \/ StartRotateHandle
    \/ RotateMove
    \/ OnUp
    \/ RotateSticker
    \/ FlipSticker
    \/ ResetSticker

SpecRotate == InitRotate /\ [][NextRotate]_vars

\* C10: every sticker's rotation lies in [0, 360).
RotationInRange ==
    \A k \in 1..Len(stickers) :
      0 <= stickers[k].rotation /\ stickers[k].rotation < 360

---------------------------------------------------------------------------
(* Crop: drags of the crop rectangle and their commits *)

InitCrop == Init /\ ops = CropOps /\ idCap = MaxIds
    /\ material = Textured

NextCrop ==
    \/ UploadFiles
    \/ ReadDone
    \/ ImgLoad
    \/ HandleCropMouseDown
    \/ CropMove
    \/ CropUp
    \/ CommitLoad
    \/ CommitError

SpecCrop == InitCrop /\ [][NextCrop]_vars

\* the crop effect's onUp is running in this step
CropRelease == isCropping /\ ~isCropping' /\ CropListening

\* the commit whose image loads in this step
Loading(k) ==
    /\ k \in 1..Len(commits)
    /\ commits' = RemoveAt(commits, k - 1)
    /\ stickers' # stickers

\* C8: a crop drag released with the sticker's rectangle different from the
\* full image starts a commit of the rectangle as it is at release, on the
\* sticker's image; and when a commit's image loads, the sticker's src is
\* the rasterized rectangle, its aspectRatio is that of the rectangle's
\* pixels and positive, and its crop is the full image again.
CropReleaseCommits ==
    [][/\ (/\ CropRelease
           /\ InRange(stickers, selectedIndex)
           /\ At(stickers, selectedIndex).crop # FullCrop)
          => /\ Len(commits') = Len(commits) + 1
             /\ commits'[Len(commits')].idx = selectedIndex
             /\ commits'[Len(commits')].crop = At(stickers, selectedIndex).crop
             /\ commits'[Len(commits')].img = At(stickers, selectedIndex).src
       /\ \A k \in 1..Len(commits) :
            Loading(k) =>
              LET c == commits[k]
                  x == At(stickers', c.idx)
              IN /\ x.src = Rasterized(c.img, c.crop)
                 /\ x.aspectRatio = Ratio(c.crop.width * c.img.w,
                                          c.crop.height * c.img.h)
                 /\ x.aspectRatio.n > 0 /\ x.aspectRatio.d > 0
                 /\ x.crop = FullCrop
      ]_vars

\* C9: every sticker's crop rectangle lies inside the image and is at least
\* 5% wide and 5% high.
CropRectInImage ==
    \A k \in 1..Len(stickers) :
      LET c == stickers[k].crop
      IN /\ c.x >= 0 /\ c.y >= 0
         /\ c.width >= Pct(5) /\ c.height >= Pct(5)
         /\ c.x + c.width <= Pct(100)
         /\ c.y + c.height <= Pct(100)

\* a crop drag pulled a handle past the opposite edge: the rectangle was
\* stopped at 5% of the image
CropStoppedAtMinimum ==
    /\ isCropping
    /\ \E k \in 1..Len(stickers) :
         /\ stickers[k].crop.width = Pct(5)
         /\ stickers[k].crop.x + stickers[k].crop.width < Pct(100)

---------------------------------------------------------------------------
(* The rotate handle alone: grab, move, release *)

InitHandle == Init /\ frame = WideFrame /\ ops = HandleOps /\ idCap = MaxIds
    /\ material = Textured

NextHandle ==
    \/ UploadFiles
    \/ ReadDone
    \/ ImgLoad
    \/ StartRotateHandle
    \/ RotateMove
    \/ OnUp

SpecHandle == InitHandle /\ [][NextHandle]_vars

\* a move of the rotate handle is handled in this step
HandleMoved ==
    /\ isRotating /\ rotateStateRef # <<>>
    /\ InRange(stickers, rotateStateRef.index)
    /\ Len(stickers') = Len(stickers)
    /\ stickers' # stickers

\* C11: a move of the rotate handle leaves the sticker's rotation congruent,
\* modulo 360, to the rotation captured at grab plus the pointer's angle now
\* minus the pointer's angle captured at grab; when that difference is a
\* whole number of turns (the pointer is at the grab position) the rotation
\* is exactly the one captured at grab; and the grab itself changes no
\* rotation.
RotationFollowsPointerDelta ==
    [][/\ HandleMoved =>
            LET st == rotateStateRef
                now == At(stickers', st.index).rotation
            IN /\ \E angleDeg \in PointerAngles :
                    (now - (st.startAngle + (angleDeg - st.pointerAngle)))
                       % 360 = 0
               /\ (now - st.startAngle) % 360 = 0 => now = st.startAngle
               /\ \A k \in 1..Len(stickers) :
                    k - 1 # st.index => stickers'[k] = stickers[k]
       /\ (~isRotating /\ isRotating') =>
            /\ stickers' = stickers
            /\ rotateStateRef'.startAngle =
                 At(stickers, rotateStateRef'.index).rotation
      ]_vars

\* a second grab started from a rotation other than 0 and the handle was
\* moved away from the grab position
HandleMovedFromTurned ==
    /\ isRotating /\ rotateStateRef # <<>>
    /\ rotateStateRef.startAngle # 0
    /\ InRange(stickers, rotateStateRef.index)
    /\ At(stickers, rotateStateRef.index).rotation # rotateStateRef.startAngle

---------------------------------------------------------------------------
(* The drag formula *)

Clamp(v, lo, hi) == Max(lo, Min(hi, v))

\* C12: a drag move with pointer travel (dx, dy) since the previous move
\* (or the grab) in a frame W x H puts the sticker's centre at
\* (clamp(uvX*W + dx, 0, W), clamp((1 - uvY)*H + dy, 0, H)) and its UV at
\* (centerX / W, 1 - centerY / H); where nothing is clamped uvX changes by
\* dx/W and uvY by -dy/H; the pointer position is remembered for the next
\* move; no other field and no other sticker changes.
DragAddsPointerDelta ==
    [][(DragMove /\ InRange(stickers, selectedIndex)) =>
         LET old == At(stickers, selectedIndex)
             new == At(stickers', selectedIndex)
             dx == dragStartRef'.x - dragStartRef.x
             dy == dragStartRef'.y - dragStartRef.y
             W == frame.width
             H == frame.height
             cx == old.uvX * W + dx * Unit
             cy == (Unit - old.uvY) * H + dy * Unit
         IN /\ new.uvX * W = Clamp(cx, 0, W * Unit)
            /\ (Unit - new.uvY) * H = Clamp(cy, 0, H * Unit)
            /\ (0 <= cx /\ cx <= W * Unit) =>
                 (new.uvX - old.uvX) * W = dx * Unit
            /\ (0 <= cy /\ cy <= H * Unit) =>
                 (new.uvY - old.uvY) * H = (0 - dy) * Unit
            /\ new = [old EXCEPT !.uvX = new.uvX, !.uvY = new.uvY]
            /\ \A k \in 1..Len(stickers) :
                 k - 1 # selectedIndex => stickers'[k] = stickers[k]
            /\ Len(stickers') = Len(stickers)
      ]_vars

\* a drag moved a sticker and left its centre strictly inside the frame,
\* off the middle on both axes
DraggedInsideFrame ==
    /\ isDragging
    /\ InRange(stickers, selectedIndex)
    /\ At(stickers, selectedIndex).uvX \notin {0, Half, Unit}
    /\ At(stickers, selectedIndex).uvY \notin {0, Half, Unit}

---------------------------------------------------------------------------
(* Reordering and removal, by sticker id *)

Ids(s) == {s[k].id : k \in 1..Len(s)}

\* the position (from 1) of the sticker with this id
PosOf(s, id) == CHOOSE k \in 1..Len(s) : s[k].id = id

\* the stickers other than "moved" keep their relative order
SameOrderOfOthers(old, new, moved) ==
    \A a \in Ids(old) \ {moved} : \A b \in Ids(old) \ {moved} :
      PosOf(old, a) < PosOf(old, b) => PosOf(new, a) < PosOf(new, b)

\* no sticker is added or lost, and none changes in a field other than
\* zIndex
OnlyZIndexChanged(old, new) ==
    /\ Len(new) = Len(old)
    /\ Ids(new) = Ids(old)
    /\ \A id \in Ids(old) :
         new[PosOf(new, id)] =
           [old[PosOf(old, id)] EXCEPT !.zIndex = new[PosOf(new, id)].zIndex]

\* C13: bring-forward puts the selected sticker last and send-backward puts
\* it first; the others keep their relative order; no field other than
\* zIndex changes; afterwards the selection is the moved sticker.
ReorderMovesSelected ==
    [][/\ BringForward =>
            LET moved == At(stickers, selectedIndex).id
            IN /\ OnlyZIndexChanged(stickers, stickers')
               /\ PosOf(stickers', moved) = Len(stickers')
               /\ SameOrderOfOthers(stickers, stickers', moved)
               /\ InRange(stickers', selectedIndex')
               /\ At(stickers', selectedIndex').id = moved
       /\ SendBackward =>
            LET moved == At(stickers, selectedIndex).id
            IN /\ OnlyZIndexChanged(stickers, stickers')
               /\ PosOf(stickers', moved) = 1
               /\ SameOrderOfOthers(stickers, stickers', moved)
               /\ InRange(stickers', selectedIndex')
               /\ At(stickers', selectedIndex').id = moved
      ]_vars

\* the first of three stickers was brought forward past the two others
BroughtFirstOfThreeForward ==
    /\ Len(stickers) = 3
    /\ selectedIndex = 2
    /\ stickers[3].id < stickers[1].id
    /\ stickers[1].id < stickers[2].id

\* the ids this step removes from the stack
Gone == Ids(stickers) \ Ids(stickers')

\* C14: when deleteSelected or a thumbnail's remove button removes the
\* selected sticker, the selection is null afterwards, that sticker alone
\* is gone, and the remaining stickers keep their relative order (and every
\* field but zIndex).
RemovingSelectedClearsSelection ==
    [][((DeleteSelected \/ RemoveThumb)
          /\ InRange(stickers, selectedIndex)
          /\ At(stickers, selectedIndex).id \in Gone) =>
         /\ selectedIndex' = NoIndex
         /\ Gone = {At(stickers, selectedIndex).id}
         /\ Len(stickers') = Len(stickers) - 1
         /\ SameOrderOfOthers(stickers, stickers',
                              At(stickers, selectedIndex).id)
         /\ \A id \in Ids(stickers') :
              stickers'[PosOf(stickers', id)] =
                [stickers[PosOf(stickers, id)] EXCEPT
                   !.zIndex = stickers'[PosOf(stickers', id)].zIndex]
      ]_vars

\* the middle one of three stickers was removed: the first and the last
\* remain, in that order, and nothing is selected
MiddleOfThreeRemoved ==
    /\ Len(stickers) = 2
    /\ nextId = 3
    /\ stickers[1].id = 0
    /\ stickers[2].id = 2
    /\ selectedIndex = NoIndex

---------------------------------------------------------------------------
(* The three pointer gestures and their global listeners *)

InitGesture == Init /\ frame = WideFrame /\ ops = GestureOps /\ idCap = MaxIds
    /\ material = Textured

NextGesture ==
    \/ UploadFiles
    \/ ReadDone
    \/ ImgLoad
    \/ SelectThumb
    \/ StartDragSticker
    \/ StartResize
    \/ StartRotateHandle
    \/ DragMove
    \/ ResizeMove
    \/ RotateMove
    \/ OnUp

SpecGesture == InitGesture /\ [][NextGesture]_vars

GestureActive == isDragging \/ isResizing \/ isRotating

---------------------------------------------------------------------------
(* Overlapping bakes *)

\* what a bake was triggered with
Trigger(b) == [mesh |-> b.mesh, bg |-> b.bg, stickers |-> b.stickers]

\* the composite c is the one of a bake triggered with t
CompositeOf(c, t) ==
    /\ c.kind = "composite"
    /\ c.fill = t.bg.fill /\ c.image = t.bg.image
    /\ c.of = t.stickers

\* C16: a bake in flight is never cancelled: in every step each bake either
\* stays in flight, as it was triggered, or is the one bake that ends in
\* the step, and then its composite becomes the colour map of its mesh,
\* whichever bakes were triggered after it and whether or not they have
\* ended.
LastFinishedBakeWins ==
    [][/\ Len(bakes') >= Len(bakes) - 1
       /\ Len(bakes') >= Len(bakes) =>
            \A k \in 1..Len(bakes) : Trigger(bakes'[k]) = Trigger(bakes[k])
       /\ Len(bakes') < Len(bakes) =>
            \E k \in 1..Len(bakes) :
              /\ \A j \in 1..Len(bakes') :
                   bakes'[j] = IF j < k THEN bakes[j] ELSE bakes[j + 1]
              /\ CompositeOf(material'[bakes[k].mesh].map, Trigger(bakes[k]))
              /\ \A m \in Meshes \ {bakes[k].mesh} :
                   material'[m] = material[m]
      ]_vars

\* two bakes of a mesh overlapped and the one triggered first ended last:
\* no bake is in flight and the colour map is not the composite of the bake
\* triggered last (the one of the current stack and colour mode)
FirstTriggeredBakeWon ==
    /\ model /\ bakes = <<>> /\ stickers # <<>>
    /\ \E m \in Meshes :
         /\ material[m].map.kind = "composite"
         /\ ~CompositeOf(material[m].map,
                         Trigger(NewBake(m, originalMaps[m], stickers,
                                         modelColor)))

---------------------------------------------------------------------------
(* Bakes per change: uploads, drags, removals and colour changes with a
   model *)

InitRebake == Init /\ frame = WideFrame /\ ops = RebakeOps /\ idCap = RebakeIds
    /\ material = Textured

NextRebake ==
    \/ ModelLoaded
    \/ UploadFiles
    \/ ReadDone
    \/ ImgLoad
    \/ RemoveThumb
    \/ StartDragSticker
    \/ DragMove
    \/ OnUp
    \/ PickColor
    \/ ResetColor
    \/ DecodeOk
    \/ DecodeFail

SpecRebake == InitRebake /\ [][NextRebake]_vars

\* the bakes one run of the bake effect starts for the state after the step
StartedNow == BakeEffectBakes(originalMaps, stickers', modelColor')

---------------------------------------------------------------------------
(* The background of a bake, for a model with and without colour maps *)

InitBackground == Init /\ frame = WideFrame /\ ops = BakeOps /\ idCap = MaxIds
    /\ material \in {Textured, Untextured}

SpecBackground == InitBackground /\ [][NextBake]_vars

\* the background bg is the one the colour mode selects for the snapshot
SelectedBy(bg, stored, color) ==
    IF color # "reset" /\ color # "original"
    THEN bg.fill = color /\ bg.image = ""
    ELSE IF stored.map.kind = "file"
         THEN bg.image = stored.map.name /\ bg.fill = ""
         ELSE bg.fill = stored.color /\ bg.image = ""

---------------------------------------------------------------------------
(* The whole page: every sticker operation and the colour picker *)

InitPage == Init /\ frame = WideFrame /\ ops = PageOps /\ idCap = MaxIds
    /\ material = Textured

NextPage ==
    \/ UploadFiles
    \/ ReadDone
    \/ ImgLoad
    \/ SelectThumb
    \/ RemoveThumb
    \/ DeleteSelected
    \/ BringForward
    \/ SendBackward
    \/ StartDragSticker
    \/ StartResize
    \/ StartRotateHandle
    \/ DragMove
    \/ ResizeMove
    \/ RotateMove
    \/ OnUp
    \/ HandleCropMouseDown
    \/ CropMove
    \/ CropUp
    \/ CommitLoad
    \/ UpdateColorGrading
    \/ ApplyColorGradingPreset
    \/ GradeDone
    \/ GradeFail
    \/ ResetColorGrading
    \/ PickColor
    \/ ResetColor

SpecPage == InitPage /\ [][NextPage]_vars

\* C19: a step that changes the colour mode (a pick, a reset) leaves every
\* sticker record and the selection as they were; hence no step that
\* changes a sticker record, the stack or the selection (add, remove,
\* reorder, drag, resize, rotate, crop, grading) changes the colour mode.
ColourModeApartFromStack ==
    [][modelColor' # modelColor =>
         (stickers' = stickers /\ selectedIndex' = selectedIndex)]_vars

\* a colour was picked with a graded sticker selected, and both are there
ColourPickedOverGradedSticker ==
    /\ IsCustom(modelColor)
    /\ InRange(stickers, selectedIndex)
    /\ Selected.src = Graded(Selected.originalSrc, Selected.colorGrading)

\* the sticker of s' that continues the sticker k of s, if any
Continues(k, j) == stickers'[j].id = stickers[k].id

\* C20: a sticker enters the stack with originalSrc equal to its src, the
\* uploaded image, and no step changes the originalSrc of a sticker that
\* stays in the stack; every grading call awaited takes the originalSrc of
\* the selected sticker, the src a finished grading installs is that image
\* graded with the call's parameters, and a grading reset installs the
\* sticker's originalSrc.
OriginalSrcKept ==
    [][/\ \A j \in 1..Len(stickers') :
            IF \E k \in 1..Len(stickers) : Continues(k, j)
            THEN \A k \in 1..Len(stickers) :
                   Continues(k, j) =>
                     stickers'[j].originalSrc = stickers[k].originalSrc
            ELSE /\ stickers'[j].originalSrc \in Files
                 /\ stickers'[j].src = stickers'[j].originalSrc
       /\ Len(gradings') > Len(gradings) =>
            gradings'[Len(gradings')].img = Selected.originalSrc
       /\ Len(gradings') < Len(gradings) =>
            \E k \in 1..Len(gradings) :
              /\ gradings' = RemoveAt(gradings, k - 1)
              /\ \A j \in 1..Len(stickers) :
                   stickers'[j] # stickers[j] =>
                     /\ stickers'[j].src =
                          Graded(gradings[k].img, gradings[k].grading)
                     /\ stickers'[j].colorGrading = gradings[k].grading
       /\ ResetColorGrading =>
            At(stickers', selectedIndex).src = Selected.originalSrc
      ]_vars

\* a sticker was cropped and then graded: its shape is the crop's, its src
\* is the whole uploaded image graded, its originalSrc the uploaded image
GradedAfterCrop ==
    \E k \in 1..Len(stickers) :
      /\ stickers[k].originalSrc \in Files
      /\ stickers[k].aspectRatio # AspectOf(stickers[k].originalSrc)
      /\ stickers[k].src.grade # <<>>
      /\ stickers[k].src.crops = <<>>

---------------------------------------------------------------------------
(* aspectRatio against the image of src *)

\* The ratio r is the width / height of the image img, up to the whole
\* pixels of a canvas: img.w and img.h are the whole parts of a width and a
\* height whose quotient is r.
IsAspectOf(r, img) ==
    /\ r.n * img.h < r.d * (img.w + 1)
    /\ r.d * img.w < r.n * (img.h + 1)

\* C21: in every reachable state each sticker's aspectRatio is the
\* width / height of the image its src refers to (up to whole pixels), also
\* after a crop commit followed by a grading update, preset or reset.
AspectRatioOfSrc ==
    \A k \in 1..Len(stickers) :
      IsAspectOf(stickers[k].aspectRatio, stickers[k].src)

---------------------------------------------------------------------------
(* The resize handle *)

\* the height h is the width w divided by the ratio r, up to rounding
HeightKeepsAspect(w, h, r) == Abs(h * r.n - w * r.d) <= r.n

\* C22: after every move of the resize handle, with delta = max(dx, dy)
\* from the grab point, the sticker's width is max(24, grabWidth + delta),
\* its height is that width divided by its aspectRatio up to rounding, and
\* its scale is width / max(frameWidth, frameHeight) clamped to
\* [0.05, 0.5].
ResizeKeepsAspect ==
    [][ResizeMove =>
         \A k \in 1..Len(stickers) :
           stickers[k].id = resizeStateRef.id =>
             \E coords \in Pointers :
               LET delta == Max(coords.x - resizeStateRef.x,
                                coords.y - resizeStateRef.y)
                   t == stickers'[k]
               IN /\ t.width = Max(24, resizeStateRef.width + delta)
                  /\ HeightKeepsAspect(t.width, t.height, t.aspectRatio)
                  /\ t.aspectRatio = stickers[k].aspectRatio
                  /\ t.scale = Min(MaxScale, Max(MinScale,
                        (t.width * Unit) \div Max(frame.width, frame.height)))
      ]_vars

---------------------------------------------------------------------------
(* A crop commit whose image fails to load *)

---------------------------------------------------------------------------
(* A mesh whose bake gets no 2D context *)

InitCanvas == Init /\ frame = WideFrame /\ ops = BakeOps /\ idCap = MaxIds
    /\ material = Hooded

SpecCanvas == InitCanvas /\ [][NextBake]_vars

\* the meshes whose bake gets no context
Unpainted == {m \in Meshes : /\ model
                             /\ originalMaps[m].map.kind = "file"
                             /\ originalMaps[m].map.name \in Oversized}

\* C24: a mesh for whose bake no 2D context can be obtained is left alone by
\* every bake: its material keeps the maps and the colour of its snapshot
\* and no draw sequence runs for it; and every change of the stack or the
\* colour mode still starts the bake of each other mesh, next to the bakes
\* in flight.
NoContextNoBake ==
    /\ [](\A m \in Unpainted :
            /\ material[m] = Restored(material[m], originalMaps[m])
            /\ \A k \in 1..Len(bakes) : bakes[k].mesh # m)
    /\ [][(model /\ stickers' # <<>>
             /\ (stickers' # stickers \/ modelColor' # modelColor)) =>
            /\ Len(bakes') = Len(bakes) + Cardinality(Meshes \ Unpainted)
            /\ \A m \in Meshes \ Unpainted :
                 \E k \in (Len(bakes) + 1)..Len(bakes') :
                   /\ bakes'[k].mesh = m
                   /\ bakes'[k].stickers = ForScene(stickers')
      ]_vars

\* the bake of the other mesh ran to its end: the body carries a composite
\* with a sticker, the hood the maps it was loaded with
BodyBakedHoodNot ==
    /\ model /\ "hood" \in Unpainted
    /\ material["body"].map.kind = "composite"
    /\ material["body"].map.layers # <<>>
    /\ material["hood"] = Hooded["hood"]

---------------------------------------------------------------------------
(* Adding images of any natural size *)

\* images a file may hold: wide, tall, and without intrinsic size (their
\* width or height reads 0)
Images ==
    {[name |-> "A", w |-> 400, h |-> 200, crops |-> <<>>, grade |-> <<>>],
     [name |-> "B", w |-> 150, h |-> 450, crops |-> <<>>, grade |-> <<>>],
     [name |-> "Z", w |-> 0, h |-> 0, crops |-> <<>>, grade |-> <<>>],
     [name |-> "W", w |-> 120, h |-> 0, crops |-> <<>>, grade |-> <<>>]}

\* the page with one file of any of these images chosen and being read
InitAdd ==
    /\ InitExceptUploads
    /\ \E i \in Images : uploads = <<[img |-> i, len |-> 0, stage |-> "read"]>>
    /\ frame = WideFrame /\ ops = StackOps /\ idCap = StackIds
    /\ material = Textured

SpecAdd == InitAdd /\ [][NextStack]_vars

\* C25: the load of an image of natural size w x h appends one sticker at
\* the end of the stack, with uvX = uvY = 0.5, scale 0.15, rotation 0,
\* aspectRatio w / h (1 if w or h is 0), the full crop and src =
\* originalSrc = the image, leaves the stickers before it as they were and
\* selects the new one; a failed load leaves the stack and the selection
\* as they were.
AddAppendsDefaultSticker ==
    [][/\ ImgLoad =>
            \E k \in 1..Len(uploads) :
              LET img == uploads[k].img
                  t == stickers'[Len(stickers')]
              IN /\ Len(stickers') = Len(stickers) + 1
                 /\ SubSeq(stickers', 1, Len(stickers)) = stickers
                 /\ t.uvX = Half /\ t.uvY = Half
                 /\ t.scale * 100 = 15 * Unit
                 /\ t.rotation = 0
                 /\ IF img.w = 0 \/ img.h = 0
                    THEN t.aspectRatio = [n |-> 1, d |-> 1]
                    ELSE t.aspectRatio.n * img.h = t.aspectRatio.d * img.w
                 /\ t.crop = [x |-> 0, y |-> 0, width |-> Pct(100),
                              height |-> Pct(100)]
                 /\ t.src = img /\ t.originalSrc = img
                 /\ selectedIndex' = Len(stickers') - 1
       /\ ImgError =>
            stickers' = stickers /\ selectedIndex' = selectedIndex
      ]_vars

\* an image without intrinsic size was added after another sticker: it is
\* the last of the stack, selected, with aspectRatio 1
SizelessImageAdded ==
    /\ Len(stickers) = 2 /\ selectedIndex = 1
    /\ stickers[2].src.w = 0
    /\ stickers[2].aspectRatio = [n |-> 1, d |-> 1]
    /\ stickers[2].src = stickers[2].originalSrc

---------------------------------------------------------------------------
(* The snapshots *)

\* C26: the snapshot of each mesh is written once, at the model's load, from
\* the material as the glTF gave it and before any bake has run, and no
\* later step (bake start, bake end, reset) changes it: its map is never a
\* composite and its colour stays the glTF's when the material's colour is
\* assigned.
SnapshotWrittenOnce ==
    /\ [](~model => /\ originalMaps = <<>> /\ bakes = <<>>
                    /\ \A m \in Meshes : material[m] = GltfMaterial(m))
    /\ [](model => \A m \in Meshes :
                     /\ originalMaps[m].map.kind # "composite"
                     /\ originalMaps[m] = Snapshot(GltfMaterial(m)))
    /\ [][model => originalMaps' = originalMaps]_vars
    /\ [][(~model /\ model') =>
            originalMaps' = [m \in Meshes |-> Snapshot(material[m])]]_vars

\* a bake has ended: the material carries a composite with a sticker and
\* the colour white, the snapshot the glTF's map and colour
SnapshotKeptUnderComposite ==
    /\ model
    /\ \E m \in Meshes :
         /\ material[m].map.kind = "composite"
         /\ material[m].map.layers # <<>>
         /\ material[m].color = "#ffffff"
         /\ originalMaps[m].map = GltfMaterial(m).map
         /\ originalMaps[m].color = GltfMaterial(m).color
         /\ originalMaps[m].color # material[m].color

---------------------------------------------------------------------------
(* The cache manager: src/lib/cacheManager.ts *)

DEFAULT_TTL == 2            \* 24 hours, the clock counting 12 hours
CACHE_VERSION == "1.0"

MaxClock == 2               \* the clock stops here
CacheOps == 4               \* calls of the cache manager explored

Ttls == {1, DEFAULT_TTL}                \* options.ttl
CacheVersions == {CACHE_VERSION, "2.0"} \* options.version
ApiKeys == {"a", "b"}
ModelUrls == {"m"}
CacheTypes == {"models", "api", "textures", "all"}

Null == <<>>                \* the promise resolves with null
Found(data) == <<data>>     \* the promise resolves with the data
Rejected == <<"rejected">>  \* the promise rejects

\* Map / object store / Storage operations on a function from keys
MapSet(map, k, v) ==
    [x \in DOMAIN map \cup {k} |-> IF x = k THEN v ELSE map[x]]
MapWithout(map, ks) ==
    IF DOMAIN map \ ks = {} THEN <<>>
    ELSE [x \in DOMAIN map \ ks |-> map[x]]

\* the data a call caches: opaque to the cache manager; named here by the
\* call that cached it (what, when, under which version)
DataOf(k, version) == [of |-> k, at |-> dateNow, version |-> version]

\* CacheItem<T>
CacheItem(data, version) ==
    [data |-> data, timestamp |-> dateNow, version |-> version]

\* JSON.stringify / JSON.parse of a CacheItem
Stringify(item) == <<"json", item.data, item.timestamp, item.version>>
Parse(s) == [data |-> s[2], timestamp |-> s[3], version |-> s[4]]

isCacheValid(item, ttl, version) ==
    LET isExpired == (dateNow - item.timestamp) > ttl
        isVersionMatch == item.version = version
    IN ~isExpired /\ isVersionMatch

Db == dbInitPromise = "opened"      \* this.db is not null

\* localStorage.getItem(key): the index of the item, 0 if there is none
StorageIndex(key) ==
    IF \E i \in 1..Len(localStorage) : localStorage[i].key = key
    THEN CHOOSE i \in 1..Len(localStorage) : localStorage[i].key = key
    ELSE 0

\* localStorage.setItem(key, value): a new key goes last
StorageSet(key, value) ==
    IF StorageIndex(key) = 0
    THEN Append(localStorage, [key |-> key, value |-> value])
    ELSE [localStorage EXCEPT ![StorageIndex(key)].value = value]

\* what one getCached... call was asked and what it returned from where
Call(name, k, ttl, version, forceRefresh, tier, result) ==
    [call |-> name, key |-> k, ttl |-> ttl, version |-> version,
     forceRefresh |-> forceRefresh, at |-> dateNow, tier |-> tier,
     result |-> result]

\* cacheModel(url, data, {version})
CacheModel ==
    /\ Tick
    /\ \E url \in ModelUrls, version \in CacheVersions :
         LET data == DataOf(url, version)
         IN /\ memoryCache' = MapSet(memoryCache, <<"model:", url>>, data)
            /\ idbModels' = IF Db
                            THEN MapSet(idbModels, url, CacheItem(data, version))
                            ELSE idbModels
    /\ UNCHANGED <<localStorage, idbApi, dbInitPromise, dateNow, returned>>
    /\ UNCHANGED <<editorVars, modelColor, gestureVars, cropVars, gradings,
                   sceneVars, gestureFx, asked, recVars>>

\* getCachedModel(url, {ttl, version, forceRefresh})
GetCachedModel ==
    /\ Tick
    /\ \E url \in ModelUrls, ttl \in Ttls, version \in CacheVersions,
          forceRefresh \in BOOLEAN :
         LET key == <<"model:", url>>
             hit == /\ Db
                    /\ url \in DOMAIN idbModels
                    /\ isCacheValid(idbModels[url], ttl, version)
             Ret(tier, result) ==
                 Call("getCachedModel", url, ttl, version, forceRefresh,
                      tier, result)
         IN IF forceRefresh
            THEN /\ returned' = Ret("none", Null)
                 /\ UNCHANGED memoryCache
            ELSE IF key \in DOMAIN memoryCache
            THEN /\ returned' = Ret("memory", Found(memoryCache[key]))
                 /\ UNCHANGED memoryCache
            ELSE IF dbInitPromise = "rejected"
            THEN /\ returned' = Ret("rejected", Rejected)
                 /\ UNCHANGED memoryCache
            ELSE IF hit
            THEN /\ memoryCache' = MapSet(memoryCache, key, idbModels[url].data)
                 /\ returned' = Ret("indexedDB", Found(idbModels[url].data))
            ELSE /\ returned' = Ret("none", Null)
                 /\ UNCHANGED memoryCache
    /\ UNCHANGED <<localStorage, idbModels, idbApi, dbInitPromise, dateNow>>
    /\ UNCHANGED <<editorVars, modelColor, gestureVars, cropVars, gradings,
                   sceneVars, gestureFx, asked, recVars>>

\* cacheAPIResponse(key, data, {version})
CacheAPIResponse ==
    /\ Tick
    /\ \E k \in ApiKeys, version \in CacheVersions :
         LET data == DataOf(k, version)
         IN /\ memoryCache' = MapSet(memoryCache, <<"api:", k>>, data)
            /\ localStorage' = StorageSet(<<"api:", k>>,
                                   Stringify(CacheItem(data, version)))
            /\ idbApi' = IF Db
                         THEN MapSet(idbApi, k, CacheItem(data, version))
                         ELSE idbApi
    /\ UNCHANGED <<idbModels, dbInitPromise, dateNow, returned>>
    /\ UNCHANGED <<editorVars, modelColor, gestureVars, cropVars, gradings,
                   sceneVars, gestureFx, asked, recVars>>

\* where getCachedAPIResponse(key, {ttl, version}) finds the entry it
\* returns: the memory cache, then a valid item of localStorage, then, the
\* database ready, a valid item of the api store
ApiTier(k, ttl, version) ==
    LET key == <<"api:", k>>
        i == StorageIndex(key)
    IN IF key \in DOMAIN memoryCache THEN "memory"
       ELSE IF i # 0 /\ isCacheValid(Parse(localStorage[i].value), ttl, version)
       THEN "localStorage"
       ELSE IF dbInitPromise = "rejected" THEN "rejected"
       ELSE IF Db /\ k \in DOMAIN idbApi /\ isCacheValid(idbApi[k], ttl, version)
       THEN "indexedDB"
       ELSE "none"

\* getCachedAPIResponse(key, {ttl, version, forceRefresh})
GetCachedAPIResponse ==
    /\ Tick
    /\ \E k \in ApiKeys, ttl \in Ttls, version \in CacheVersions,
          forceRefresh \in BOOLEAN :
         LET key == <<"api:", k>>
             tier == IF forceRefresh THEN "none" ELSE ApiTier(k, ttl, version)
             data == IF tier = "localStorage"
                     THEN Parse(localStorage[StorageIndex(key)].value).data
                     ELSE idbApi[k].data
             Ret(result) ==
                 Call("getCachedAPIResponse", k, ttl, version, forceRefresh,
                      tier, result)
         IN IF tier = "memory"
            THEN /\ returned' = Ret(Found(memoryCache[key]))
                 /\ UNCHANGED memoryCache
            ELSE IF tier \in {"localStorage", "indexedDB"}
            THEN /\ memoryCache' = MapSet(memoryCache, key, data)
                 /\ returned' = Ret(Found(data))
            ELSE /\ returned' = Ret(IF tier = "rejected" THEN Rejected ELSE Null)
                 /\ UNCHANGED memoryCache
    /\ UNCHANGED <<localStorage, idbModels, idbApi, dbInitPromise, dateNow>>
    /\ UNCHANGED <<editorVars, modelColor, gestureVars, cropVars, gradings,
                   sceneVars, gestureFx, asked, recVars>>

\* for (let i = 0; i < localStorage.length; i++): the item at key(i) is
\* removed if its key starts with 'api:', and the items after it move up
RECURSIVE RemoveApiItems(_, _)
RemoveApiItems(storage, i) ==
    IF ~(i < Len(storage)) THEN storage
    ELSE IF storage[i + 1].key[1] = "api:"
         THEN RemoveApiItems(RemoveAt(storage, i), i + 1)
         ELSE RemoveApiItems(storage, i + 1)

\* clearCache(type)
ClearCacheOf(type) ==
    /\ Tick
    /\ LET prefix == IF type = "models" THEN "model:"
                     ELSE IF type = "api" THEN "api:" ELSE ""
           gone == {key \in DOMAIN memoryCache :
                      prefix = "" \/ key[1] = prefix}
       IN /\ memoryCache' = IF type = "all" THEN <<>>
                            ELSE MapWithout(memoryCache, gone)
          /\ localStorage' = IF type \in {"api", "all"}
                             THEN RemoveApiItems(localStorage, 0)
                             ELSE localStorage
          /\ idbModels' = IF Db /\ type \in {"models", "all"}
                          THEN <<>> ELSE idbModels
          /\ idbApi' = IF Db /\ type \in {"api", "all"}
                       THEN <<>> ELSE idbApi
    /\ UNCHANGED <<dbInitPromise, dateNow, returned>>
    /\ UNCHANGED <<editorVars, modelColor, gestureVars, cropVars, gradings,
                   sceneVars, gestureFx, asked, recVars>>

ClearCache == \E type \in CacheTypes : ClearCacheOf(type)

\* twelve hours pass
Elapse ==
    /\ dateNow < MaxClock
    /\ dateNow' = dateNow + 1
    /\ UNCHANGED <<memoryCache, localStorage, idbModels, idbApi,
                   dbInitPromise, returned>>
    /\ UNCHANGED <<editorVars, modelColor, gestureVars, cropVars, gradings,
                   sceneVars, gestureFx, asked, recVars, ops, idCap>>

\* the project saved by an earlier visit (part_005:413)
SavedProject == [key |-> <<"", "3d-mockup-project">>, value |-> <<"json">>]

\* a session of the page in which only the cache manager is used; IndexedDB
\* opened, is not available, or failed to open
InitCache ==
    /\ InitExceptUploadsAndCache
    /\ uploads = <<>>
    /\ memoryCache = <<>>
    /\ localStorage \in {<<>>, <<SavedProject>>}
    /\ idbModels = <<>>
    /\ idbApi = <<>>
    /\ dateNow = 0
    /\ returned = <<>>
    /\ dbInitPromise \in {"opened", "unavailable", "rejected"}
    /\ frame = WideFrame /\ ops = CacheOps /\ idCap = 0
    /\ material = Textured

NextCache ==
    \/ CacheModel
    \/ GetCachedModel
    \/ CacheAPIResponse
    \/ GetCachedAPIResponse
    \/ ClearCache
    \/ Elapse

SpecCache == InitCache /\ [][NextCache]_vars

\* C27: getCachedModel and getCachedAPIResponse return a cached entry only
\* if, at the call, its age does not exceed the ttl of the call and its
\* version is the version of the call, and return null when forceRefresh is
\* set, whichever tier holds the entry.
ReturnedEntryIsValid ==
    returned # <<>> =>
      /\ returned.forceRefresh => returned.result = Null
      /\ returned.tier \in {"memory", "localStorage", "indexedDB"} =>
           /\ returned.at - returned.result[1].at <= returned.ttl
           /\ returned.result[1].version = returned.version

\* the same of the entries that localStorage and IndexedDB return
StoredEntryIsValid ==
    returned # <<>> /\ returned.tier # "memory" =>
      /\ returned.forceRefresh => returned.result = Null
      /\ returned.tier \in {"memory", "localStorage", "indexedDB"} =>
           /\ returned.at - returned.result[1].at <= returned.ttl
           /\ returned.result[1].version = returned.version

\* no entry with prefix 'api:' in the memory cache, in localStorage or in
\* the api store
NoApiEntry ==
    /\ \A key \in DOMAIN memoryCache : key[1] # "api:"
    /\ \A i \in 1..Len(localStorage) : localStorage[i].key[1] # "api:"
    /\ idbApi = <<>>

\* C28: after clearCache('api') or clearCache('all') has completed, no
\* entry with prefix 'api:' remains in the memory cache, in localStorage or
\* in the IndexedDB api store, and getCachedAPIResponse returns null for
\* every key, however many responses had been cached.
ClearedApiIsGone ==
    [][(ClearCacheOf("api") \/ ClearCacheOf("all")) /\ dbInitPromise # "rejected"
         => (/\ NoApiEntry
             /\ \A k \in ApiKeys, ttl \in Ttls, version \in CacheVersions :
                  ApiTier(k, ttl, version) = "none")']_vars

\* the same with at most one API response in localStorage before the call
ClearedSingleApiIsGone ==
    [][(/\ ClearCacheOf("api") \/ ClearCacheOf("all")
        /\ dbInitPromise # "rejected"
        /\ Cardinality({i \in 1..Len(localStorage) :
                          localStorage[i].key[1] = "api:"}) <= 1)
         => (/\ NoApiEntry
             /\ \A k \in ApiKeys, ttl \in Ttls, version \in CacheVersions :
                  ApiTier(k, ttl, version) = "none")']_vars

---------------------------------------------------------------------------
(* Recording: the timer effect, startRecording, pauseRecording,
   resumeRecording, stopRecording (part_004:250-270, 711-791) *)

MaxRecorders == 2       \* MediaRecorders created
MaxSeconds == 2         \* the timer stops here
RecordOps == 5          \* clicks explored

\* The timer effect (deps: isRecording, isPaused), as the step's render
\* leaves it.  When a dep changed, the cleanup of the previous run clears the
\* interval the ref holds; then, recording and not paused, a new interval is
\* set and kept in the ref, and otherwise the ref is set to null.
TimerEffectIgnoresPause ==
    LET rerun == isRecording' # isRecording \/ isPaused' # isPaused
        kept == IF recordingTimerRef = "live" THEN intervals - 1
                ELSE intervals
    IN IF ~rerun THEN UNCHANGED <<recordingTimerRef, intervals>>
       ELSE IF isRecording'
            THEN recordingTimerRef' = "live" /\ intervals' = kept + 1
            ELSE recordingTimerRef' = "null" /\ intervals' = kept
TimerEffect ==
    LET rerun == isRecording' # isRecording \/ isPaused' # isPaused
        kept == IF recordingTimerRef = "live" THEN intervals - 1
                ELSE intervals
    IN IF ~rerun THEN UNCHANGED <<recordingTimerRef, intervals>>
       ELSE IF isRecording' /\ ~isPaused'
            THEN recordingTimerRef' = "live" /\ intervals' = kept + 1
            ELSE recordingTimerRef' = "null" /\ intervals' = kept

\* the render that follows a change of the recording state
RecordingRender ==
    /\ BakeRoom(stickers)
    /\ PageRender(stickers, selectedIndex, modelColor, isCropping,
                  cropStateRef)
    /\ TimerEffect
    /\ UNCHANGED <<editorVars, modelColor, gestureVars, isCropping,
                   cropStateRef, commits, gradings, asked, cacheVars>>
    /\ GestureEffect

\* a click that changes nothing
NothingRecorded ==
    /\ UNCHANGED <<editorVars, modelColor, gestureVars, cropVars, gradings,
                   sceneVars, gestureFx, asked, recVars, cacheVars>>

\* the MediaRecorder the ref holds
Recorder == recorders[mediaRecorderRef]

\* startRecording: "Start Recording" of the camera menu
StartRecording ==
    /\ Tick
    /\ Len(recorders) < MaxRecorders
    /\ recorders' = Append(recorders,
                           [state |-> "recording", stopping |-> FALSE])
    /\ mediaRecorderRef' = Len(recorders) + 1
    /\ isRecording' = TRUE
    /\ isPaused' = FALSE
    /\ recordingTime' = 0
    /\ RecordingRender

\* startRecording with no canvas, or new MediaRecorder / start throwing
StartRecordingFailed ==
    /\ Tick
    /\ NothingRecorded

\* pauseRecording: "Pause" of the overlay, shown while recording, not paused
PauseRecording ==
    /\ Tick
    /\ isRecording /\ ~isPaused
    /\ IF mediaRecorderRef # 0 /\ Recorder.state = "recording"
       THEN /\ recorders' = [recorders EXCEPT ![mediaRecorderRef].state = "paused"]
            /\ isPaused' = TRUE
            /\ UNCHANGED <<isRecording, recordingTime, mediaRecorderRef>>
            /\ RecordingRender
       ELSE NothingRecorded

\* resumeRecording: "Resume" of the overlay, shown while paused
ResumeRecording ==
    /\ Tick
    /\ isRecording /\ isPaused
    /\ IF mediaRecorderRef # 0 /\ Recorder.state = "paused"
       THEN /\ recorders' = [recorders EXCEPT ![mediaRecorderRef].state = "recording"]
            /\ isPaused' = FALSE
            /\ UNCHANGED <<isRecording, recordingTime, mediaRecorderRef>>
            /\ RecordingRender
       ELSE NothingRecorded

\* stopRecording: "Stop" of the overlay, shown while recording.  stop()
\* makes the recorder inactive and queues its stop event; on an inactive
\* recorder it throws.
StopRecording ==
    /\ Tick
    /\ isRecording
    /\ IF mediaRecorderRef # 0 /\ Recorder.state # "inactive"
       THEN /\ recorders' = [recorders EXCEPT
                               ![mediaRecorderRef] =
                                  [state |-> "inactive", stopping |-> TRUE]]
            /\ UNCHANGED <<editorVars, modelColor, gestureVars, cropVars,
                           gradings, sceneVars, gestureFx, asked, cacheVars>>
            /\ UNCHANGED <<isRecording, isPaused, recordingTime,
                           mediaRecorderRef, recordingTimerRef, intervals>>
       ELSE NothingRecorded

\* mediaRecorder.onstop
RecorderStopped ==
    /\ \E r \in 1..Len(recorders) :
         /\ recorders[r].stopping
         /\ recorders' = [recorders EXCEPT ![r].stopping = FALSE]
    /\ isRecording' = FALSE
    /\ isPaused' = FALSE
    /\ recordingTime' = 0
    /\ UNCHANGED <<mediaRecorderRef, ops, idCap>>
    /\ RecordingRender

\* the callback of a running interval: setRecordingTime(prev => prev + 1)
TimerTick ==
    /\ intervals > 0
    /\ recordingTime < MaxSeconds
    /\ recordingTime' = recordingTime + 1
    /\ BakeRoom(stickers)
    /\ PageRender(stickers, selectedIndex, modelColor, isCropping,
                  cropStateRef)
    /\ UNCHANGED <<isRecording, isPaused, mediaRecorderRef, recorders,
                   recordingTimerRef, intervals, ops, idCap>>
    /\ UNCHANGED <<editorVars, modelColor, gestureVars, isCropping,
                   cropStateRef, commits, gradings, asked, cacheVars>>
    /\ GestureEffect

InitRecord ==
    Init /\ frame = WideFrame /\ ops = RecordOps /\ idCap = 0
         /\ material = Textured

NextRecord ==
    \/ ModelLoaded
    \/ StartRecording
    \/ StartRecordingFailed
    \/ PauseRecording
    \/ ResumeRecording
    \/ StopRecording
    \/ RecorderStopped
    \/ TimerTick

SpecRecord == InitRecord /\ [][NextRecord]_vars

\* C29: at most one timer interval is active, and none when not recording
\* or when paused; the timer only increases, by one, while recording and not
\* paused; while one recording stays paused it does not change; on resume
\* it continues from the value it was frozen at; it is 0 when a recording
\* starts.
TimerFollowsRecording ==
    /\ [](/\ intervals <= 1
          /\ (~isRecording \/ isPaused) => intervals = 0
          /\ isRecording /\ ~isPaused => intervals = 1)
    /\ [][/\ recordingTime' > recordingTime =>
               /\ recordingTime' = recordingTime + 1
               /\ isRecording /\ ~isPaused
          /\ (/\ isRecording /\ isPaused /\ isRecording'
              /\ mediaRecorderRef' = mediaRecorderRef) =>
               recordingTime' = recordingTime
          /\ mediaRecorderRef' # mediaRecorderRef =>
               /\ recordingTime' = 0
               /\ isRecording' /\ ~isPaused']_vars

\* a recording paused after its first second: the timer stands at 1 or more
\* with no interval running
PausedTimerFrozen ==
    /\ isRecording /\ isPaused
    /\ recordingTime >= 1
    /\ intervals = 0
    /\ Recorder.state = "paused"

---------------------------------------------------------------------------
(* The editor's stacking order and the bake's drawing order *)

\* the place of the sticker at index i of s (from 1) after
\* s.slice().sort((a, b) => a.zIndex - b.zIndex), a stable sort
PlaceByZIndex(s, i) ==
    Cardinality({j \in 1..Len(s) :
                   \/ s[j].zIndex < s[i].zIndex
                   \/ s[j].zIndex = s[i].zIndex /\ j < i}) + 1

\* the ids in the order the frame editor renders the stickers: the later
\* one lies over the earlier ones (style zIndex: s.zIndex, then DOM order)
EditorOrder(s) ==
    [k \in 1..Len(s) |->
       s[CHOOSE i \in 1..Len(s) : PlaceByZIndex(s, i) = k].id]

\* the ids in the order a bake draws the stickers it was given:
\* stickers.map(...) of the page, then for (i = 0; i < stickers.length; i++)
DrawOrder(s) == [k \in 1..Len(s) |-> s[k].id]

\* C30: the order in which a bake draws the stickers is the order in which
\* the frame editor stacks them, so the sticker on top in the editor is the
\* one painted last on the model.
BakeOrderIsEditorOrder ==
    DrawOrder(stickers) = EditorOrder(stickers)

---------------------------------------------------------------------------
(* A bake and the version of the stack it was triggered with *)

\* the indices a canvas has settled: drawn, or skipped on a failed decode
Settled(layers, skipped) ==
    {layers[j] : j \in 1..Len(layers)} \cup skipped

\* the layers on a canvas are stickers of one stack s, each at most once
LayersOf(s, layers, skipped) ==
    /\ Settled(layers, skipped) \subseteq 0..(Len(s) - 1)
    /\ \A i, j \in 1..Len(layers) : i # j => layers[i] # layers[j]
    /\ \A j \in 1..Len(layers) : layers[j] \notin skipped

\* the canvas of bake b after one more of its images settled
OneMoreSettled(b, layers, skipped) ==
    \E i \in Pending(b) :
      \/ layers = Append(b.layers, i) /\ skipped = b.skipped
      \/ layers = b.layers /\ skipped = b.skipped \cup {i}

\* C31: every bake composites the sticker stack and the colour mode that
\* were current when it was triggered, on its own canvas: a bake starts with
\* the stack and the background of the render that triggered it and an empty
\* canvas; while it is in flight its stack and background stay and its
\* canvas only gains stickers of its own stack; and the composite it assigns
\* has its background and, of its stack, every sticker that decoded, none of
\* any other version, whatever happened to the stack or to other bakes of
\* the mesh in between.
BakeKeepsItsVersion ==
    /\ [](/\ \A k \in 1..Len(bakes) :
               LayersOf(bakes[k].stickers, bakes[k].layers, bakes[k].skipped)
          /\ \A m \in Meshes :
               material[m].map.kind = "composite" =>
                 /\ LayersOf(material[m].map.of, material[m].map.layers,
                             material[m].map.skipped)
                 /\ Settled(material[m].map.layers, material[m].map.skipped)
                      = 0..(Len(material[m].map.of) - 1))
    /\ [][/\ Len(bakes') > Len(bakes) =>
               /\ \A k \in 1..Len(bakes) : bakes'[k] = bakes[k]
               /\ \A k \in (Len(bakes) + 1)..Len(bakes') :
                    /\ bakes'[k].stickers = ForScene(stickers')
                    /\ bakes'[k].bg = Background(originalMaps'[bakes'[k].mesh],
                                                 modelColor')
                    /\ bakes'[k].layers = <<>> /\ bakes'[k].skipped = {}
          /\ Len(bakes') = Len(bakes) =>
               \A k \in 1..Len(bakes) :
                 \/ bakes'[k] = bakes[k]
                 \/ /\ Trigger(bakes'[k]) = Trigger(bakes[k])
                    /\ OneMoreSettled(bakes[k], bakes'[k].layers,
                                      bakes'[k].skipped)
          /\ Len(bakes') < Len(bakes) =>
               \E k \in 1..Len(bakes) :
                 LET c == material'[bakes[k].mesh].map
                 IN /\ bakes' = RemoveAt(bakes, k - 1)
                    /\ c.kind = "composite"
                    /\ c.of = bakes[k].stickers
                    /\ c.fill = bakes[k].bg.fill
                    /\ c.image = bakes[k].bg.image
                    /\ OneMoreSettled(bakes[k], c.layers, c.skipped)
         ]_vars

\* the colour map of a mesh is the composite of a stack that is no longer
\* the current one, with a sticker drawn, while a later bake of the mesh,
\* triggered with another stack, has drawn a sticker too
OlderVersionComposited ==
    /\ model
    /\ \E m \in Meshes :
         /\ material[m].map.kind = "composite"
         /\ material[m].map.layers # <<>>
         /\ material[m].map.of # ForScene(stickers)
         /\ \E k \in 1..Len(bakes) :
              /\ bakes[k].mesh = m
              /\ bakes[k].layers # <<>>
              /\ bakes[k].stickers # material[m].map.of

---------------------------------------------------------------------------
(* A drag and the sticker it was started on *)

\* the ids of the stickers whose uvX or uvY the step changes
Repositioned ==
    {id \in Ids(stickers) \cap Ids(stickers') :
       \/ stickers'[PosOf(stickers', id)].uvX # stickers[PosOf(stickers, id)].uvX
       \/ stickers'[PosOf(stickers', id)].uvY # stickers[PosOf(stickers, id)].uvY}

\* C32: while a drag gesture is in progress, a step only changes the uvX /
\* uvY of the sticker the gesture was started on, also after a pending
\* upload completed during the drag and changed the selection.
DragMovesGrabbedSticker ==
    [][(isDragging /\ dragStartRef # <<>>) =>
         Repositioned \subseteq {dragStartRef.grabbed}]_vars

\* the same while the selection is still the sticker grabbed
DragMovesGrabbedWhileSelected ==
    [][(/\ isDragging /\ dragStartRef # <<>>
        /\ InRange(stickers, selectedIndex)
        /\ At(stickers, selectedIndex).id = dragStartRef.grabbed) =>
         Repositioned \subseteq {dragStartRef.grabbed}]_vars

---------------------------------------------------------------------------
(* Asynchronous results and the sticker they were started for *)

\* the ids of the stickers whose record the step changes
Rewritten ==
    {id \in Ids(stickers) \cap Ids(stickers') :
       stickers'[PosOf(stickers', id)] # stickers[PosOf(stickers, id)]}

\* the step completes one of the operations awaited in q (now q2), and every
\* sticker it writes to is the one that operation was started for
CompletedFor(q, q2) ==
    Len(q2) < Len(q) =>
      \E k \in 1..Len(q) :
        /\ q2 = RemoveAt(q, k - 1)
        /\ Rewritten \subseteq {q[k].id}

\* C33: the result of a crop commit or of a colour grading is never written
\* to a sticker other than the one the operation was started for, also when
\* stickers were removed or reordered before its image processing finished.
ResultGoesToItsSticker ==
    [][CompletedFor(commits, commits') /\ CompletedFor(gradings, gradings')]_vars

\* the same of the operations whose sticker is still at the index it had
\* when they were started
ResultGoesToItsIndex ==
    [][/\ Len(commits') < Len(commits) =>
            \E k \in 1..Len(commits) :
              /\ commits' = RemoveAt(commits, k - 1)
              /\ (/\ InRange(stickers, commits[k].idx)
                  /\ At(stickers, commits[k].idx).id = commits[k].id) =>
                   Rewritten \subseteq {commits[k].id}
       /\ Len(gradings') < Len(gradings) =>
            \E k \in 1..Len(gradings) :
              /\ gradings' = RemoveAt(gradings, k - 1)
              /\ (/\ InRange(stickers, gradings[k].idx)
                  /\ At(stickers, gradings[k].idx).id = gradings[k].id) =>
                   Rewritten \subseteq {gradings[k].id}]_vars

---------------------------------------------------------------------------
(* Overlapping colour-grading changes *)

GradeOps == 4       \* user gestures explored by SpecGrade

InitGrade == Init /\ frame = WideFrame /\ ops = GradeOps /\ idCap = MaxIds
    /\ material = Textured

\* stickers are added and the sliders of the panel are moved; every
\* applyColorGrading call resolves
NextGrade ==
    \/ UploadFiles
    \/ ReadDone
    \/ ImgLoad
    \/ UpdateColorGrading
    \/ GradeDone

SpecGrade == InitGrade /\ [][NextGrade]_vars

\* a grading of the sticker with this id is awaited
GradingPending(id) == \E k \in 1..Len(gradings) : gradings[k].id = id

\* C34: once every colour-grading change issued for a sticker has completed,
\* the sticker's colorGrading holds every changed parameter with its latest
\* value and its src is the original image graded with that parameter set,
\* also when a later change was issued before an earlier one had finished.
OverlappingGradingsAllApplied ==
    \A k \in 1..Len(stickers) :
      (stickers[k].id \in DOMAIN asked /\ ~GradingPending(stickers[k].id)) =>
        /\ stickers[k].colorGrading = asked[stickers[k].id]
        /\ stickers[k].src =
             Graded(stickers[k].originalSrc, asked[stickers[k].id])

---------------------------------------------------------------------------
(* The selection *)

\* C35: in every reachable state the selection is null or a valid index
\* into the stickers array (0 <= selectedIndex < stickers.length), whatever
\* the interleaving of add completions, removals, reorders, selections and
\* gesture starts.
SelectionIsNullOrValidIndex ==
    selectedIndex = NoIndex \/ InRange(stickers, selectedIndex)

\* a sticker is selected after another one was removed from under it
SelectedAfterRemoval ==
    /\ nextId = 2
    /\ Len(stickers) = 1
    /\ selectedIndex = 0
    /\ At(stickers, 0).id = 1

---------------------------------------------------------------------------
(* Re-renders that change neither the stack nor the colour mode *)

RerenderOps == 4    \* user gestures explored by SpecRerender

InitRerender == Init /\ frame = WideFrame /\ ops = RerenderOps /\ idCap = 1
    /\ material = Textured

\* one sticker on a loaded model; a recording is started and its timer
\* ticks, the sticker is grabbed and released
NextRerender ==
    \/ ModelLoaded
    \/ UploadFiles
    \/ ReadDone
    \/ ImgLoad
    \/ StartDragSticker
    \/ OnUp
    \/ StartRecording
    \/ TimerTick
    \/ DecodeOk
    \/ DecodeFail

SpecRerender == InitRerender /\ [][NextRerender]_vars

\* a state of the page other than the stack and the colour mode is set: the
\* page renders again
OtherStateSet ==
    \/ recordingTime' # recordingTime
    \/ isRecording' # isRecording
    \/ isPaused' # isPaused
    \/ isDragging' # isDragging
    \/ isResizing' # isResizing
    \/ isRotating' # isRotating
    \/ selectedIndex' # selectedIndex

\* C36: a re-render of the customize page that changes neither the sticker
\* stack nor the colour mode (a recording-timer tick, a gesture flag change)
\* starts no bake and leaves every mesh material unchanged.
RerenderStartsNoBake ==
    [][(/\ OtherStateSet
        /\ model /\ model'
        /\ stickers' = stickers
        /\ modelColor' = modelColor)
       => (bakes' = bakes /\ material' = material)]_vars

\* the same for a page without stickers, where the bake effect has nothing
\* to decode
RerenderOfEmptyStackStartsNoBake ==
    [][(/\ OtherStateSet
        /\ model /\ model'
        /\ stickers = <<>>
        /\ stickers' = stickers
        /\ modelColor' = modelColor)
       => (bakes' = bakes /\ material' = material)]_vars

---------------------------------------------------------------------------
(* Editor size and baked size *)

\* the sticker's width in editor pixels is its scale times the larger side
\* of the frame, rounded to a pixel
WidthIsScaleOf(s, rect) ==
    LET biggest == Max(rect.width, rect.height)
        d == s.width * Unit - s.scale * biggest
    IN 2 * d <= Unit /\ 2 * (-d) <= Unit

\* C37: in every reachable state a sticker's editor pixel width equals its
\* normalized scale multiplied by max(frameWidth, frameHeight), up to
\* rounding: right after add and after resize, scale and reset operations.
EditorWidthIsScaleOfFrame ==
    \A k \in 1..Len(stickers) : WidthIsScaleOf(stickers[k], frame)

\* the same for the sticker a scale step or a reset has just written
ScaledWidthIsScaleOfFrame ==
    [][(ScaleSticker \/ ResetSticker)
       => WidthIsScaleOf(At(stickers', selectedIndex), frame)]_vars

---------------------------------------------------------------------------
(* Cache reads when IndexedDB cannot be opened *)

\* the last call was a read of the cache
ReadReturned ==
    /\ returned # <<>>
    /\ returned.call \in {"getCachedModel", "getCachedAPIResponse"}

\* C38: getCachedModel and getCachedAPIResponse always resolve, to cached
\* data or to null, and never reject, also when opening IndexedDB failed (so
\* that loadModelWithCache, which awaits getCachedModel before downloading,
\* reaches its download).
CacheReadsNeverReject ==
    ReadReturned => returned.tier # "rejected"

\* the same while IndexedDB opened or is not there at all
CacheReadsResolveWithDb ==
    (ReadReturned /\ dbInitPromise # "rejected") => returned.tier # "rejected"

---------------------------------------------------------------------------
(* Crop handles *)

\* the handle the crop effect's onMove works with
GrabbedHandle == IF cropStateRef.handle = "null" THEN "se" ELSE cropStateRef.handle

\* the crop rectangle r against the rectangle g captured at grab, for the
\* handle h
OnlyNamedEdgesMoved(h, g, r) ==
    /\ Includes(h, "n") => r.y + r.height = g.y + g.height
    /\ Includes(h, "w") => r.x + r.width = g.x + g.width
    /\ Includes(h, "s") => r.y = g.y
    /\ Includes(h, "e") => r.x = g.x
    /\ (~Includes(h, "n") /\ ~Includes(h, "s")) =>
         (r.y = g.y /\ r.height = g.height)
    /\ (~Includes(h, "w") /\ ~Includes(h, "e")) =>
         (r.x = g.x /\ r.width = g.width)

\* C39: during a crop drag only the edges named by the grabbed handle move:
\* with n the bottom edge y + height stays at its grab value, with w the
\* right edge x + width, with s the top edge y, with e the left edge x; a
\* handle naming no vertical (horizontal) edge leaves y and height (x and
\* width) unchanged.  Every move is computed from the rectangle captured at
\* grab, whatever the previous moves made of the sticker's crop.
CropMovesNamedEdges ==
    [][(CropMove /\ InRange(stickers, Closed.idx))
       => OnlyNamedEdgesMoved(GrabbedHandle, cropStateRef.crop,
                              At(stickers', Closed.idx).crop)]_vars

\* an n or nw drag has moved the top edge down, and the drag can go on with
\* the sticker's rectangle no longer the one captured at grab
TopEdgeDragged ==
    /\ isCropping /\ CropListening /\ cropStateRef # <<>>
    /\ ops > 0
    /\ cropStateRef.handle \in {"n", "nw"}
    /\ InRange(stickers, Closed.idx)
    /\ At(stickers, Closed.idx).crop.y > cropStateRef.crop.y
    /\ At(stickers, Closed.idx).crop.y + At(stickers, Closed.idx).crop.height
         = cropStateRef.crop.y + cropStateRef.crop.height

===========================================================================
